---------------------------- MODULE Spec2Model ----------------------------
(***************************************************************************)
(* Cross-venue analytics pipeline of ccxt-mcp-server.                      *)
(*                                                                         *)
(*   MarketDataCache      (cache/lru-cache-manager.ts)  -> SpecCache       *)
(*   AdaptiveRateLimiter  (rate-limiting/adaptive-limiter.ts) -> Spec,     *)
(*                                                          SpecBatch      *)
(*   ExchangeManager.executeWithRateLimit (exchange-manager.ts)            *)
(*                                                       -> SpecRateLimit  *)
(*   AdvancedArbitrageScanner (arbitrage/advanced-scanner.ts) -> SpecScan  *)
(*   AdvancedArbitrageScanner.startContinuousScanning      -> SpecLoop     *)
(*   getExchangeFees, calculateArbitrageFees, calculateFees -> SpecFees    *)
(*   ExchangeManager.getExchange (exchange-manager.ts)     -> SpecManager  *)
(*   repeated scans of the same venues                     -> SpecRescan   *)
(*                                                                         *)
(* Time is an integer number of milliseconds.  Strings that take part in   *)
(* a concatenation are sequences of tokens, ":" being a token of its own,  *)
(* so that two different (exchange, symbol, extra) tuples can be seen to   *)
(* produce the same cache key.                                             *)
(***************************************************************************)
EXTENDS Integers, Sequences, FiniteSets, TLC

VARIABLES
    now,          \* wall clock, ms
    caches,       \* class -> sequence of entries, least recently used first
    metrics,      \* class -> [hits, misses, evictions]
    ret,          \* what the last cache call returned
    hist,         \* history: request -> the last set of that request
    used,         \* history: how many sets, gets and clock steps were made
    touched,      \* history: the requests the client has made
    retryStates,  \* AdaptiveRateLimiter.retryStates: venue -> RetryState
    calls,        \* the executeWithBackoff calls, one record per call slot
    batch,        \* the executeBatch call
    scan,         \* the scanner: the scanForArbitrage call and its results, the
                  \* startContinuousScanning calls (cont), a fee computation (fee),
                  \* the exchange instances (manager)
    rl            \* the ExchangeManager.executeWithRateLimit call

cacheVars == <<now, caches, metrics, ret, hist, used, touched>>
limiterVars == <<retryStates, calls, batch>>
appVars == <<scan, rl>>
vars == <<now, caches, metrics, ret, hist, used, touched, retryStates, calls, batch, scan, rl>>

-----------------------------------------------------------------------------
(* Bounds of the model *)

MaxSets == 2        \* set calls in one behaviour
MaxGets == 2        \* get calls in one behaviour
MaxAdvance == 2     \* clock steps in one behaviour
MaxKeys == 2        \* distinct requests in one behaviour

-----------------------------------------------------------------------------
(* MarketDataCache: configuration *)

Classes == {"ticker", "orderBook", "ohlcv", "market", "trades"}

TICKER_TTL_MS == 10000
ORDERBOOK_TTL_MS == 5000
OHLCV_TTL_MS == 60000
MARKET_TTL_MS == 3600000
TRADES_TTL_MS == 10000

TICKER_MAX_ENTRIES == 500
ORDERBOOK_MAX_ENTRIES == 200
OHLCV_MAX_ENTRIES == 300
MARKET_MAX_ENTRIES == 1000
TRADES_MAX_ENTRIES == 200

\* the options each LRUCache is constructed with
CacheOptions(cls) ==
    CASE cls = "ticker" ->
           [max |-> TICKER_MAX_ENTRIES, ttl |-> TICKER_TTL_MS, updateAgeOnGet |-> TRUE]
      [] cls = "orderBook" ->
           [max |-> ORDERBOOK_MAX_ENTRIES, ttl |-> ORDERBOOK_TTL_MS, updateAgeOnGet |-> TRUE]
      [] cls = "ohlcv" ->
           [max |-> OHLCV_MAX_ENTRIES, ttl |-> OHLCV_TTL_MS, updateAgeOnGet |-> TRUE]
      [] cls = "market" ->
           [max |-> MARKET_MAX_ENTRIES, ttl |-> MARKET_TTL_MS, updateAgeOnGet |-> FALSE]
      [] cls = "trades" ->
           [max |-> TRADES_MAX_ENTRIES, ttl |-> TRADES_TTL_MS, updateAgeOnGet |-> TRUE]

\* the constructor rejects a TTL that is not positive
TTLsValid == \A cls \in Classes : CacheOptions(cls).ttl > 0

-----------------------------------------------------------------------------
(* MarketDataCache: keys *)

Absent == "undefined"
\* the data a caller stores (any): two records and the empty string, one of
\* the values JavaScript takes for false
Values == {"v1", "v2", ""}

\* getTicker: if (result)
IsHit(result) == result \notin {Absent, ""}

binance == <<"binance">>
BTCUSDT == <<"BTC/USDT">>
BTCUSDTswap == <<"BTC/USDT", ":", "USDT">>      \* ccxt's "BTC/USDT:USDT"
NoExtra == <<>>                                   \* undefined (or the empty string)

\* the calls a client makes, per class
Requests ==
    {[cls |-> "ticker", exchange |-> binance, symbol |-> s, extra |-> NoExtra] :
        s \in {BTCUSDT, BTCUSDTswap}}
    \cup {[cls |-> "orderBook", exchange |-> binance, symbol |-> BTCUSDT, extra |-> x] :
        x \in {NoExtra, <<"5">>}}
    \cup {[cls |-> "ohlcv", exchange |-> binance, symbol |-> BTCUSDT, extra |-> x] :
        x \in {<<"1h">>, <<"1d">>}}
    \cup {[cls |-> "market", exchange |-> binance, symbol |-> NoExtra, extra |-> NoExtra]}
    \cup {[cls |-> "trades", exchange |-> binance, symbol |-> BTCUSDT, extra |-> NoExtra]}

getKeyNoExtra(exchange, symbol, extra) == exchange \o <<":">> \o symbol

getKey(exchange, symbol, extra) ==
    IF extra # NoExtra
    THEN exchange \o <<":">> \o symbol \o <<":">> \o extra
    ELSE exchange \o <<":">> \o symbol

\* the key a request is stored under: the market cache is keyed by the exchange id
KeyOf(r) ==
    IF r.cls = "market" THEN r.exchange ELSE getKey(r.exchange, r.symbol, r.extra)

-----------------------------------------------------------------------------
(* LRUCache (lru-cache), as MarketDataCache configures it *)

IndexOf(seq, key) ==
    IF \E i \in 1..Len(seq) : seq[i].key = key
    THEN CHOOSE i \in 1..Len(seq) : seq[i].key = key
    ELSE 0

Without(seq, i) == SubSeq(seq, 1, i - 1) \o SubSeq(seq, i + 1, Len(seq))

\* an entry is stale once its age exceeds the ttl
isStale(e, ttl, t) == t - e.start > ttl

\* updateAgeOnGet: a successful get restarts the age of the entry
updateItemAge(cls, e, t) ==
    IF CacheOptions(cls).updateAgeOnGet THEN [e EXCEPT !.start = t] ELSE e

\* LRUCache.get: [val, seq', hit] - a stale entry is deleted and undefined
\* returned, a fresh one becomes the most recently used
LruGet(cls, seq, key, t) ==
    LET i == IndexOf(seq, key) IN
    IF i = 0 THEN [val |-> Absent, seq |-> seq, hit |-> FALSE]
    ELSE IF isStale(seq[i], CacheOptions(cls).ttl, t)
         THEN [val |-> Absent, seq |-> Without(seq, i), hit |-> FALSE]
         ELSE [val |-> seq[i].val, hit |-> TRUE,
               seq |-> Append(Without(seq, i), updateItemAge(cls, seq[i], t))]

\* LRUCache.set: [seq', evicted] - a new key evicts the least recently used
\* entry of a full cache; the ttlAutopurge timer is armed for ttl + 1
LruSet(cls, seq, key, val, t) ==
    LET i == IndexOf(seq, key)
        e == [key |-> key, val |-> val, start |-> t,
              timer |-> t + CacheOptions(cls).ttl + 1]
    IN  IF i # 0 THEN [seq |-> Append(Without(seq, i), e), evicted |-> {}]
        ELSE IF Len(seq) >= CacheOptions(cls).max
             THEN [seq |-> Append(Tail(seq), e), evicted |-> {seq[1].key}]
             ELSE [seq |-> Append(seq, e), evicted |-> {}]

\* ttlAutopurge: a timer that fires in (t1, t2] deletes its entry if it is stale then
LruPurge(cls, seq, t1, t2) ==
    SelectSeq(seq, LAMBDA e :
        ~(t1 < e.timer /\ e.timer <= t2 /\ isStale(e, CacheOptions(cls).ttl, e.timer)))


-----------------------------------------------------------------------------
(* MarketDataCache: state and operations *)

NoReq == [cls |-> "none", exchange |-> <<>>, symbol |-> <<>>, extra |-> <<>>]
NoRet == [op |-> "none", req |-> NoReq, val |-> Absent]
NoHist == [at |-> -1, val |-> Absent, gone |-> FALSE]
ZeroMetrics == [cls \in Classes |-> [hits |-> 0, misses |-> 0, evictions |-> 0]]
\* history: per class, the gets made and the gets that returned a value
\* since the last resetMetrics
ZeroCounts == [cls \in Classes |-> 0]

\* the clock steps: up to the instant a cached entry reaches the age ttl, or
\* up to the millisecond after it
Expiries ==
    UNION {{caches[cls][i].start + CacheOptions(cls).ttl - now : i \in 1..Len(caches[cls])} :
           cls \in Classes}

Steps == {d \in Expiries \cup {x + 1 : x \in Expiries} : d > 0}

InitCacheVars ==
    /\ TTLsValid
    /\ now = 0
    /\ caches = [cls \in Classes |-> <<>>]
    /\ metrics = ZeroMetrics
    /\ ret = NoRet
    /\ hist = [r \in Requests |-> NoHist]
    /\ used = [sets |-> 0, gets |-> 0, ticks |-> 0, got |-> ZeroCounts, returned |-> ZeroCounts]
    /\ touched = {}

\* the requests of class cls whose key is among keys lose their entry
Dropped(h, cls, keys) ==
    [r \in Requests |->
        IF r.cls = cls /\ KeyOf(r) \in keys /\ h[r] # NoHist
        THEN [h[r] EXCEPT !.gone = TRUE] ELSE h[r]]

MayTouch(r) == r \in touched \/ Cardinality(touched) < MaxKeys

\* get<Class>: read through the class's LRUCache and count a hit or a miss
CacheGet(r) ==
    /\ used.gets < MaxGets
    /\ MayTouch(r)
    /\ touched' = touched \cup {r}
    /\ LET g == LruGet(r.cls, caches[r.cls], KeyOf(r), now) IN
        /\ caches' = [caches EXCEPT ![r.cls] = g.seq]
        /\ metrics' = IF IsHit(g.val)
                      THEN [metrics EXCEPT ![r.cls].hits = @ + 1]
                      ELSE [metrics EXCEPT ![r.cls].misses = @ + 1]
        /\ ret' = [op |-> "get", req |-> r, val |-> g.val]
        /\ used' = [used EXCEPT !.gets = @ + 1,
                                !.got[r.cls] = @ + 1,
                                !.returned[r.cls] = IF g.val # Absent THEN @ + 1 ELSE @]
    /\ UNCHANGED <<now, hist>>
    /\ UNCHANGED <<limiterVars, appVars>>

\* set<Class>: write through to the class's LRUCache
CacheSet(r, v) ==
    /\ used.sets < MaxSets
    /\ MayTouch(r)
    /\ touched' = touched \cup {r}
    /\ LET s == LruSet(r.cls, caches[r.cls], KeyOf(r), v, now) IN
        /\ caches' = [caches EXCEPT ![r.cls] = s.seq]
        /\ hist' = [Dropped(hist, r.cls, s.evicted) EXCEPT
                        ![r] = [at |-> now, val |-> v, gone |-> FALSE]]
    /\ ret' = NoRet
    /\ used' = [used EXCEPT !.sets = @ + 1]
    /\ UNCHANGED <<now, metrics>>
    /\ UNCHANGED <<limiterVars, appVars>>

getTicker(r) == r.cls = "ticker" /\ CacheGet(r)
setTicker(r, v) == r.cls = "ticker" /\ CacheSet(r, v)
getOrderBook(r) == r.cls = "orderBook" /\ CacheGet(r)
setOrderBook(r, v) == r.cls = "orderBook" /\ CacheSet(r, v)
getOHLCV(r) == r.cls = "ohlcv" /\ CacheGet(r)
setOHLCV(r, v) == r.cls = "ohlcv" /\ CacheSet(r, v)
getMarkets(r) == r.cls = "market" /\ CacheGet(r)
setMarkets(r, v) == r.cls = "market" /\ CacheSet(r, v)
getTrades(r) == r.cls = "trades" /\ CacheGet(r)
setTrades(r, v) == r.cls = "trades" /\ CacheSet(r, v)

ClearClassesResetting(cs) ==
    /\ caches' = [cls \in Classes |-> IF cls \in cs THEN <<>> ELSE caches[cls]]
    /\ hist' = [r \in Requests |->
                    IF r.cls \in cs /\ hist[r] # NoHist
                    THEN [hist[r] EXCEPT !.gone = TRUE] ELSE hist[r]]
    /\ metrics' = ZeroMetrics
    /\ UNCHANGED <<now, used, touched>>
    /\ UNCHANGED <<limiterVars, appVars>>

\* LRUCache.clear on the caches of the classes cs
ClearClasses(cs) ==
    /\ caches' = [cls \in Classes |-> IF cls \in cs THEN <<>> ELSE caches[cls]]
    /\ hist' = [r \in Requests |->
                    IF r.cls \in cs /\ hist[r] # NoHist
                    THEN [hist[r] EXCEPT !.gone = TRUE] ELSE hist[r]]
    /\ UNCHANGED <<now, metrics, used, touched>>
    /\ UNCHANGED <<limiterVars, appVars>>

clearTickerCache ==
    /\ caches["ticker"] # <<>>
    /\ ClearClasses({"ticker"})
    /\ ret' = NoRet

clearOrderBookCache ==
    /\ caches["orderBook"] # <<>>
    /\ ClearClasses({"orderBook"})
    /\ ret' = NoRet

clearAllCaches ==
    /\ \E cls \in Classes : caches[cls] # <<>>
    /\ ClearClasses(Classes)
    /\ ret' = NoRet

resetMetrics ==
    /\ metrics # ZeroMetrics
    /\ metrics' = ZeroMetrics
    /\ ret' = NoRet
    /\ used' = [used EXCEPT !.got = ZeroCounts, !.returned = ZeroCounts]
    /\ UNCHANGED <<now, caches, hist, touched>>
    /\ UNCHANGED <<limiterVars, appVars>>

\* toFixed(2) of a fraction that is not negative: the number of hundredths
\* nearest to it
toFixed2(x) == (2 * 100 * x.num + x.den) \div (2 * x.den)

\* getStats.calculateHitRate, in percent
calculateHitRate(hits, misses) ==
    LET total == hits + misses
    IN  IF total > 0 THEN [num |-> hits * 100, den |-> total] ELSE [num |-> 0, den |-> 1]

SumOver(m, field) ==
    m["ticker"][field] + m["orderBook"][field] + m["ohlcv"][field]
        + m["market"][field] + m["trades"][field]

\* getStats: hitRate and overallHitRate in hundredths of a percent
getStats ==
    [c \in Classes \cup {"overall"} |->
        IF c = "overall"
        THEN [totalHits |-> SumOver(metrics, "hits"),
              totalMisses |-> SumOver(metrics, "misses"),
              overallHitRate |-> toFixed2(calculateHitRate(SumOver(metrics, "hits"),
                                                           SumOver(metrics, "misses")))]
        ELSE [size |-> Len(caches[c]),
              maxSize |-> CacheOptions(c).max,
              hits |-> metrics[c].hits,
              misses |-> metrics[c].misses,
              hitRate |-> toFixed2(calculateHitRate(metrics[c].hits, metrics[c].misses))]]

\* d milliseconds pass with the event loop idle: the autopurge timers that
\* come due fire
Elapse(d) ==
    /\ now' = now + d
    /\ caches' = [cls \in Classes |-> LruPurge(cls, caches[cls], now, now + d)]
    /\ ret' = NoRet
    /\ used' = [used EXCEPT !.ticks = @ + 1]
    /\ UNCHANGED <<metrics, hist, touched>>
    /\ UNCHANGED <<limiterVars, appVars>>

\* a clock step of the behaviour
Advance(d) ==
    /\ used.ticks < MaxAdvance
    /\ Elapse(d)

NextCache ==
    \/ \E r \in Requests : getTicker(r)
    \/ \E r \in Requests, v \in Values : setTicker(r, v)
    \/ \E r \in Requests : getOrderBook(r)
    \/ \E r \in Requests, v \in Values : setOrderBook(r, v)
    \/ \E r \in Requests : getOHLCV(r)
    \/ \E r \in Requests, v \in Values : setOHLCV(r, v)
    \/ \E r \in Requests : getMarkets(r)
    \/ \E r \in Requests, v \in Values : setMarkets(r, v)
    \/ \E r \in Requests : getTrades(r)
    \/ \E r \in Requests, v \in Values : setTrades(r, v)
    \/ clearTickerCache
    \/ clearOrderBookCache
    \/ clearAllCaches
    \/ resetMetrics
    \/ \E d \in Steps : Advance(d)

-----------------------------------------------------------------------------
(* AdaptiveRateLimiter: configuration and pure functions *)

MaxDirect == 2          \* executeWithBackoff calls pending at once (Spec)
MaxAttempts == 7        \* attempts after which an operation fails retryably no more (Spec)
MaxBatchOps == 3        \* operations in one executeBatch call (SpecBatch)
MaxBatchAttempts == 2   \* as MaxAttempts, while a batch may run (SpecBatch)

maxRetries == 5
baseDelay == 1000
maxDelay == 60000
groupDelay == 100

Venues == {"X", "Y"}

\* an error: its code, and which of the substrings isNonRetryableError looks
\* for its message contains
NoError == [code |-> "none", has |-> {}]
NetworkError == [code |-> "NETWORK_ERROR", has |-> {}]
AuthError == [code |-> "INVALID_CREDENTIALS", has |-> {}]
UnsupportedError == [code |-> "none", has |-> {"not supported"}]
OpErrors == {NetworkError, AuthError, UnsupportedError}

\* Math.floor(Math.random() * 1000) ranges over 0..999
Jitters == {0, 999}

RECURSIVE Pow2(_)
Pow2(n) == IF n <= 0 THEN 1 ELSE 2 * Pow2(n - 1)

Min(a, b) == IF a <= b THEN a ELSE b

calculateDelayNoBackoff(retryCount, jitter) == Min(baseDelay + jitter, maxDelay)

\* floor(min(2^(retryCount-1) * baseDelay + jitter, maxDelay)), jitter in [0, 1000)
calculateDelay(retryCount, jitter) ==
    Min(Pow2(retryCount - 1) * baseDelay + jitter, maxDelay)

isNonRetryableError(error) ==
    \/ error.code = "INVALID_CREDENTIALS"
    \/ error.code = "PERMISSION_DENIED"
    \/ "API key" \in error.has
    \/ "authentication" \in error.has
    \/ error.code = "INVALID_SYMBOL"
    \/ error.code = "MARKET_NOT_AVAILABLE"
    \/ "symbol" \in error.has
    \/ "market" \in error.has
    \/ error.code = "METHOD_NOT_SUPPORTED"
    \/ "not supported" \in error.has
    \/ "not implemented" \in error.has

\* RetryState; lastError and lastSuccess are dates that only getStats reports
NoState == [exists |-> FALSE, retryCount |-> 0, consecutiveErrors |-> 0]
NewState == [exists |-> TRUE, retryCount |-> 0, consecutiveErrors |-> 0]

getOrCreateState(rs, exchangeId) ==
    IF ~rs[exchangeId].exists THEN [rs EXCEPT ![exchangeId] = NewState] ELSE rs

resetStateKeepErrors(rs, exchangeId) ==
    IF rs[exchangeId].exists
    THEN [rs EXCEPT ![exchangeId].retryCount = 0]
    ELSE rs

resetStateAll(rs, exchangeId) ==
    [v \in DOMAIN rs |-> IF rs[v].exists THEN NewState ELSE rs[v]]

resetState(rs, exchangeId) ==
    IF rs[exchangeId].exists
    THEN [rs EXCEPT ![exchangeId].retryCount = 0, ![exchangeId].consecutiveErrors = 0]
    ELSE rs

countFailureRetryCountOnly(rs, exchangeId) ==
    [rs EXCEPT ![exchangeId].retryCount = @ + 1]

\* the catch block counts the failure
countFailure(rs, exchangeId) ==
    [rs EXCEPT ![exchangeId].retryCount = @ + 1, ![exchangeId].consecutiveErrors = @ + 1]

retriesExceededLate(retryCount) == retryCount > maxRetries + 1

\* state.retryCount > this.maxRetries
retriesExceeded(retryCount) == retryCount > maxRetries

-----------------------------------------------------------------------------
(* AdaptiveRateLimiter.executeWithBackoff *)

Direct == 1..MaxDirect
BatchSlots == (MaxDirect + 1)..(MaxDirect + MaxBatchOps)
CallIds == Direct \cup BatchSlots
BatchSlot(i) == MaxDirect + i

\* pc: idle - no call; sleep - in the backoff sleep of `delay` ms; run - the
\* operation is in flight (slept: after a backoff sleep); done - settled, the
\* caller has not resumed yet; err is the error the call settled with.
\* attempts, fails, pure (every failure so far was retryable) and alone (no
\* other call for the venue was pending at any time of this call) are history.
IdleCall ==
    [pc |-> "idle", venue |-> "none", attempts |-> 0, fails |-> 0, rcEntry |-> 0,
     delay |-> 0, slept |-> FALSE, outcome |-> "none", err |-> NoError, pure |-> TRUE,
     alone |-> TRUE]

Pending(call) == call.pc \in {"sleep", "run"}
InFlight(call) == call.pc = "run"

\* a caller invokes executeWithBackoff in slot c for venue v
Begin(cs, c, v) ==
    [d \in CallIds |->
        IF d = c
        THEN [IdleCall EXCEPT !.venue = v,
                !.alone = ~\E o \in CallIds \ {c} : Pending(cs[o]) /\ cs[o].venue = v]
        ELSE IF Pending(cs[d]) /\ cs[d].venue = v
             THEN [cs[d] EXCEPT !.alone = FALSE]
             ELSE cs[d]]

\* lines 27-36: the state is looked up, and either the backoff sleep or the
\* operation starts
Enter(cs, rs, c, j) ==
    LET v == cs[c].venue
        rs1 == getOrCreateState(rs, v)
        rc == rs1[v].retryCount
    IN  [rs |-> rs1,
         calls |-> [cs EXCEPT ![c] =
            IF rc > 0
            THEN [@ EXCEPT !.pc = "sleep", !.rcEntry = rc, !.delay = calculateDelay(rc, j)]
            ELSE [@ EXCEPT !.pc = "run", !.rcEntry = 0, !.delay = 0, !.slept = FALSE,
                           !.attempts = @ + 1]]]

CatchKeepsCountOnFatal(cs, rs, c, error, j) ==
    LET v == cs[c].venue
        rs1 == countFailure(rs, v)
        failed == [cs EXCEPT ![c].fails = @ + 1,
                             ![c].pure = @ /\ ~isNonRetryableError(error)]
    IN  IF retriesExceeded(rs1[v].retryCount)
        THEN [rs |-> resetState(rs1, v),
              calls |-> [failed EXCEPT ![c].pc = "done", ![c].outcome = "maxRetries",
                                      ![c].err = error]]
        ELSE IF isNonRetryableError(error)
             THEN [rs |-> rs1,
                   calls |-> [failed EXCEPT ![c].pc = "done", ![c].outcome = "error",
                                           ![c].err = error]]
             ELSE Enter(failed, rs1, c, j)

\* lines 42-72: the catch block
Catch(cs, rs, c, error, j) ==
    LET v == cs[c].venue
        rs1 == countFailure(rs, v)
        failed == [cs EXCEPT ![c].fails = @ + 1,
                             ![c].pure = @ /\ ~isNonRetryableError(error)]
    IN  IF retriesExceeded(rs1[v].retryCount)
        THEN [rs |-> resetState(rs1, v),
              calls |-> [failed EXCEPT ![c].pc = "done", ![c].outcome = "maxRetries",
                                      ![c].err = error]]
        ELSE IF isNonRetryableError(error)
             THEN [rs |-> resetState(rs1, v),
                   calls |-> [failed EXCEPT ![c].pc = "done", ![c].outcome = "error",
                                           ![c].err = error]]
             ELSE Enter(failed, rs1, c, j)

-----------------------------------------------------------------------------
(* AdaptiveRateLimiter.executeBatch *)

\* pc: idle; op - awaiting the executeWithBackoff of operation (g, k);
\* stagger - in the delay before group g; done - returned; rejected - threw.
\* results[n].op (the input index of the operation), results[n].ran and log
\* are history.
IdleBatch == [pc |-> "idle", ops |-> <<>>, g |-> 0, k |-> 0, results |-> <<>>, log |-> <<>>]

BatchInputs == UNION {[1..n -> Venues] : n \in 0..MaxBatchOps}

\* the keys of the Map `grouped`, in insertion order
RECURSIVE GroupKeys(_)
GroupKeys(ops) ==
    IF ops = <<>> THEN <<>>
    ELSE LET init == GroupKeys(SubSeq(ops, 1, Len(ops) - 1))
             last == ops[Len(ops)]
         IN  IF \E i \in 1..Len(init) : init[i] = last THEN init ELSE Append(init, last)

\* the input indices of the operations pushed to the group of venue v
RECURSIVE GroupOf(_, _, _)
GroupOf(ops, v, n) ==
    IF n = 0 THEN <<>>
    ELSE IF ops[n] = v THEN Append(GroupOf(ops, v, n - 1), n) ELSE GroupOf(ops, v, n - 1)

\* lines 86-93
Grouped(ops) ==
    [gi \in 1..Len(GroupKeys(ops)) |-> GroupOf(ops, GroupKeys(ops)[gi], Len(ops))]

CurrentOp(b) == Grouped(b.ops)[b.g][b.k]

StaggerAlways(results) == TRUE

\* line 100: results.length > 0
StaggerNeeded(results) == Len(results) > 0

OpSettledNoAwait(call) == call.pc # "idle"

\* line 107: await this.executeWithBackoff(...)
OpSettled(call) == call.pc = "done"

BatchOnSettledNoCatch(b, cur, call) ==
    IF call.outcome = "ok"
    THEN [b EXCEPT !.results = Append(@, [success |-> TRUE, op |-> cur,
                        outcome |-> call.outcome, ran |-> call.attempts > 0])]
    ELSE [b EXCEPT !.pc = "rejected"]

\* lines 106-115: try { results.push(success) } catch { results.push(failure) }
BatchOnSettled(b, cur, call) ==
    IF call.outcome = "ok"
    THEN [b EXCEPT !.results = Append(@, [success |-> TRUE, op |-> cur,
                        outcome |-> call.outcome, ran |-> call.attempts > 0])]
    ELSE [b EXCEPT !.results = Append(@, [success |-> FALSE, op |-> cur,
                        outcome |-> call.outcome, ran |-> call.attempts > 0])]

\* lines 105-111: the batch calls executeWithBackoff for operation (g, k)
StartOp(b, cs, rs, j) ==
    LET cur == CurrentOp(b)
        e == Enter(Begin(cs, BatchSlot(cur), b.ops[cur]), rs, BatchSlot(cur), j)
    IN  [batch |-> [b EXCEPT !.pc = "op", !.log = Append(@, [kind |-> "start", n |-> cur])],
         calls |-> e.calls, rs |-> e.rs]

\* lines 98-102: the next group starts, after the delay when there are results
EnterGroup(b, cs, rs, j) ==
    IF StaggerNeeded(b.results)
    THEN [batch |-> [b EXCEPT !.pc = "stagger",
                        !.log = Append(@, [kind |-> "sleep", n |-> groupDelay])],
          calls |-> cs, rs |-> rs]
    ELSE StartOp(b, cs, rs, j)

-----------------------------------------------------------------------------
(* AdaptiveRateLimiter: state and steps *)

InitLimiterVars ==
    /\ retryStates = [v \in Venues |-> NoState]
    /\ calls = [c \in CallIds |-> IdleCall]
    /\ batch = IdleBatch

\* a caller calls executeWithBackoff(v, operation)
executeWithBackoff(c, v) ==
    /\ calls[c].pc = "idle"
    /\ \E j \in Jitters :
        LET e == Enter(Begin(calls, c, v), retryStates, c, j) IN
            /\ calls' = e.calls
            /\ retryStates' = e.rs
    /\ UNCHANGED batch
    /\ UNCHANGED <<cacheVars, appVars>>

\* line 32: the backoff sleep is over, the operation is invoked
sleepResolves(c) ==
    /\ calls[c].pc = "sleep"
    /\ calls' = [calls EXCEPT ![c].pc = "run", ![c].delay = 0, ![c].slept = TRUE,
                              ![c].attempts = @ + 1]
    /\ UNCHANGED <<retryStates, batch>>
    /\ UNCHANGED <<cacheVars, appVars>>

\* lines 36-41: the operation succeeded
operationResolves(c) ==
    /\ calls[c].pc = "run"
    /\ retryStates' = resetState(retryStates, calls[c].venue)
    /\ calls' = [calls EXCEPT ![c].pc = "done", ![c].outcome = "ok"]
    /\ UNCHANGED batch
    /\ UNCHANGED <<cacheVars, appVars>>

\* lines 42-72: the operation failed with error
operationRejects(c, error, limit) ==
    /\ calls[c].pc = "run"
    /\ \/ calls[c].attempts < limit
       \/ isNonRetryableError(error)
       \/ retriesExceeded(retryStates[calls[c].venue].retryCount + 1)
    /\ \E j \in Jitters :
        LET r == Catch(calls, retryStates, c, error, j) IN
            /\ calls' = r.calls
            /\ retryStates' = r.rs
    /\ UNCHANGED batch
    /\ UNCHANGED <<cacheVars, appVars>>

\* the caller of a settled call resumes
callerResumes(c) ==
    /\ calls[c].pc = "done"
    /\ calls' = [calls EXCEPT ![c] = IdleCall]
    /\ UNCHANGED <<retryStates, batch>>
    /\ UNCHANGED <<cacheVars, appVars>>

\* executeBatch(ops) is called: lines 85-111 up to the first await
executeBatchCall(ops) ==
    /\ batch.pc = "idle"
    /\ \A c \in BatchSlots : calls[c].pc = "idle"
    /\ LET b == [IdleBatch EXCEPT !.ops = ops, !.g = 1, !.k = 1] IN
        IF Grouped(ops) = <<>>
        THEN /\ batch' = [b EXCEPT !.pc = "done"]
             /\ UNCHANGED <<calls, retryStates>>
        ELSE \E j \in Jitters :
                LET n == EnterGroup(b, calls, retryStates, j) IN
                    /\ batch' = n.batch
                    /\ calls' = n.calls
                    /\ retryStates' = n.rs

\* a caller calls executeBatch(ops)
executeBatch(ops) ==
    /\ executeBatchCall(ops)
    /\ UNCHANGED <<cacheVars, appVars>>

\* lines 105-119: the awaited call has settled; the batch records it and goes on
batchResumes ==
    /\ batch.pc = "op"
    /\ UNCHANGED <<cacheVars, appVars>>
    /\ LET cur == CurrentOp(batch)
           slot == BatchSlot(cur)
           b == BatchOnSettled(batch, cur, calls[slot])
           cs == IF calls[slot].pc = "done" THEN [calls EXCEPT ![slot] = IdleCall] ELSE calls
       IN
        /\ OpSettled(calls[slot])
        /\ IF b.pc = "rejected"
           THEN /\ batch' = b
                /\ calls' = cs
                /\ UNCHANGED retryStates
           ELSE IF batch.k < Len(Grouped(batch.ops)[batch.g])
           THEN \E j \in Jitters :
                    LET n == StartOp([b EXCEPT !.k = @ + 1], cs, retryStates, j) IN
                        /\ batch' = n.batch
                        /\ calls' = n.calls
                        /\ retryStates' = n.rs
           ELSE IF batch.g < Len(Grouped(batch.ops))
           THEN \E j \in Jitters :
                    LET n == EnterGroup([b EXCEPT !.g = @ + 1, !.k = 1], cs, retryStates, j) IN
                        /\ batch' = n.batch
                        /\ calls' = n.calls
                        /\ retryStates' = n.rs
           ELSE /\ batch' = [b EXCEPT !.pc = "done"]
                /\ calls' = cs
                /\ UNCHANGED retryStates

\* line 101: the delay between groups is over
staggerResolves ==
    /\ batch.pc = "stagger"
    /\ UNCHANGED <<cacheVars, appVars>>
    /\ \E j \in Jitters :
        LET n == StartOp(batch, calls, retryStates, j) IN
            /\ batch' = n.batch
            /\ calls' = n.calls
            /\ retryStates' = n.rs

\* the caller of executeBatch resumes with the results
batchCallerResumes ==
    /\ batch.pc \in {"done", "rejected"}
    /\ \A c \in BatchSlots : calls[c].pc = "idle"
    /\ batch' = IdleBatch
    /\ UNCHANGED <<calls, retryStates>>
    /\ UNCHANGED <<cacheVars, appVars>>

-----------------------------------------------------------------------------
(* Exchange fees (config/exchange-fees.ts).  Money is an integer number of *)
(* thousandths of a dollar, a fee rate an integer number of 1/100000; the   *)
(* prices of the model are whole dollars, so that every fee is exact.       *)

RateUnit == 100000

\* EXCHANGE_FEES
EXCHANGE_FEES ==
    [binance |-> [maker |-> 100, taker |-> 100, withdrawal |-> 15000],
     coinbase |-> [maker |-> 400, taker |-> 600, withdrawal |-> 25000],
     kraken |-> [maker |-> 160, taker |-> 260, withdrawal |-> 10000],
     gemini |-> [maker |-> 100, taker |-> 350, withdrawal |-> 20000],
     bybit |-> [maker |-> 100, taker |-> 100, withdrawal |-> 12000],
     okx |-> [maker |-> 80, taker |-> 100, withdrawal |-> 10000],
     gateio |-> [maker |-> 200, taker |-> 200, withdrawal |-> 15000],
     kucoin |-> [maker |-> 100, taker |-> 100, withdrawal |-> 10000],
     bitget |-> [maker |-> 100, taker |-> 100, withdrawal |-> 12000],
     mexc |-> [maker |-> 20, taker |-> 20, withdrawal |-> 8000],
     huobi |-> [maker |-> 200, taker |-> 200, withdrawal |-> 15000],
     bitfinex |-> [maker |-> 100, taker |-> 200, withdrawal |-> 20000],
     bitstamp |-> [maker |-> 400, taker |-> 500, withdrawal |-> 15000],
     binanceusdm |-> [maker |-> 20, taker |-> 40, withdrawal |-> 10000],
     deribit |-> [maker |-> 20, taker |-> 50, withdrawal |-> 5000],
     phemex |-> [maker |-> -25, taker |-> 75, withdrawal |-> 8000],
     bitmex |-> [maker |-> -25, taker |-> 75, withdrawal |-> 10000]]

DEFAULT_FEES == [maker |-> 200, taker |-> 200, withdrawal |-> 20000]

\* exchangeId.toLowerCase(), for the ids of the model
toLowerCase(exchangeId) ==
    CASE exchangeId = "Binance" -> "binance"
      [] exchangeId = "X" -> "x"
      [] exchangeId = "Y" -> "y"
      [] OTHER -> exchangeId

\* EXCHANGE_FEES[exchangeId.toLowerCase()] || DEFAULT_FEES
getExchangeFees(exchangeId) ==
    IF toLowerCase(exchangeId) \in DOMAIN EXCHANGE_FEES
    THEN EXCHANGE_FEES[toLowerCase(exchangeId)]
    ELSE DEFAULT_FEES

calculateTradingFeeMaker(exchangeId, price, isMaker) ==
    (price * getExchangeFees(exchangeId).maker) \div RateUnit

calculateTradingFee(exchangeId, price, isMaker) ==
    LET fees == getExchangeFees(exchangeId)
        feeRate == IF isMaker THEN fees.maker ELSE fees.taker
    IN  (price * feeRate) \div RateUnit

getWithdrawalFee(exchangeId) == getExchangeFees(exchangeId).withdrawal

calculateArbitrageFees(buyExchange, sellExchange, buyPrice, sellPrice, includeWithdrawal) ==
    LET buyFee == calculateTradingFee(buyExchange, buyPrice, FALSE)
        sellFee == calculateTradingFee(sellExchange, sellPrice, FALSE)
        withdrawalFee == IF includeWithdrawal /\ buyExchange # sellExchange
                         THEN getWithdrawalFee(buyExchange) ELSE 0
    IN  [buyFee |-> buyFee, sellFee |-> sellFee, withdrawalFee |-> withdrawalFee,
         totalFees |-> buyFee + sellFee + withdrawalFee]

-----------------------------------------------------------------------------
(* AdvancedArbitrageScanner: quotes and configuration *)

MaxScanVenues == 3      \* venues in the list of one scan (SpecScan)
MaxScans == 1           \* scanForArbitrage calls in one behaviour (SpecScan)
MaxScanAttempts == 2    \* as MaxAttempts, while a scan may run (SpecScan)

\* a ticker as a venue returns it; `missing` are the fields that are
\* undefined.  baseVolume is what the scanner stores as volume.
Tick(bid, ask, baseVolume, missing) ==
    [bid |-> bid, ask |-> ask, baseVolume |-> baseVolume, missing |-> missing]

\* the tickers of the model, by name
TickerNames == {"qA", "qB", "qCrossed", "qHigh", "qDeep", "qTight", "qNoVolume",
                "qMalformed"}

Ticker(name) ==
    CASE name = "qA" -> Tick(100000, 101000, 5000, {})
      [] name = "qB" -> Tick(103000, 104000, 5000, {})
      [] name = "qCrossed" -> Tick(110000, 100000, 150000, {})
      [] name = "qHigh" -> Tick(125000, 126000, 5000, {})
      [] name = "qDeep" -> Tick(103000, 104000, 150000, {})
      [] name = "qTight" -> Tick(101400, 101500, 50, {})
      [] name = "qNoVolume" -> Tick(103000, 104000, 0, {"baseVolume"})
      [] name = "qMalformed" -> Tick(0, 0, 5000, {"ask"})

\* the tickers that the market_ticker handler is given
HandlerTickers == {"qA", "qB"}

\* the record the scanner builds from a fetched ticker and caches (lines
\* 401-409): volume is baseVolume || 0
ScannerRecord(name) == <<"scanner", name>>

\* the record the market_ticker handler caches: baseVolume, and no volume field
HandlerRecord(name) == <<"handler", name>>

QuoteNeverCached(exchange, record, fromCache) ==
    [exchange |-> exchange, record |-> record, fromCache |-> FALSE]

\* a quote of priceData: the exchange, the cached or fetched record, fromCache
Quote(exchange, record, fromCache) ==
    [exchange |-> exchange, record |-> record, fromCache |-> fromCache]

\* the fields the scanner reads from a quote; a field that is undefined is
\* falsy, like 0
HasField(q, f) ==
    IF f = "volume"
    THEN q.record[1] = "scanner"
    ELSE f \notin Ticker(q.record[2]).missing

Bid(q) == Ticker(q.record[2]).bid
AskUndercut(q) == Ticker(q.record[2]).ask - 2000
Ask(q) == Ticker(q.record[2]).ask
Volume(q) == Ticker(q.record[2]).baseVolume
Truthy(q, f, n) == HasField(q, f) /\ n # 0

\* ScannerConfig: minProfitPercent in tenths of a per cent
Config(minProfitTenths, maxRiskScore, minVolume, withdrawal, trading) ==
    [minProfitTenths |-> minProfitTenths, maxRiskScore |-> maxRiskScore,
     minVolume |-> minVolume, includeWithdrawalFees |-> withdrawal,
     includeTradingFees |-> trading]

\* defaultConfig with the two fee switches as the caller sets them, and a
\* configuration whose thresholds let every opportunity through
Configs ==
    {Config(1, 7, 100, FALSE, FALSE), Config(1, 7, 100, FALSE, TRUE),
     Config(1, 7, 100, TRUE, TRUE), Config(0, 10, 0, FALSE, FALSE),
     Config(0, 10, 0, TRUE, TRUE)}

-----------------------------------------------------------------------------
(* AdvancedArbitrageScanner: the analysis of one pair.  A number that is    *)
(* not an integer is kept as a fraction [num, den]; riskScore counts halves. *)

NEUTRAL_RISK_SCORE == 5
BASE_CONFIDENCE == 50
FRACTIONAL_KELLY == [num |-> 1, den |-> 4]

Max(a, b) == IF a >= b THEN a ELSE b

\* a fraction is below, or above, the integer k
Below(f, num, den) == f.num * den < num * f.den
Above(f, num, den) == f.num * den > num * f.den

calculateFeesNone(buyExchange, sellExchange, buyPrice, sellPrice, config) ==
    [buyFee |-> 0, sellFee |-> 0, withdrawalFee |-> 0, totalFees |-> 0]

\* lines 537-545: the fees the configuration includes, and their sum
feesIncluded(fees, config) ==
    [buyFee |-> IF config.includeTradingFees THEN fees.buyFee ELSE 0,
     sellFee |-> IF config.includeTradingFees THEN fees.sellFee ELSE 0,
     withdrawalFee |-> IF config.includeWithdrawalFees THEN fees.withdrawalFee ELSE 0,
     totalFees |-> (IF config.includeTradingFees THEN fees.buyFee + fees.sellFee ELSE 0)
                 + (IF config.includeWithdrawalFees THEN fees.withdrawalFee ELSE 0)]

calculateFees(buyExchange, sellExchange, buyPrice, sellPrice, config) ==
    feesIncluded(calculateArbitrageFees(buyExchange.exchange, sellExchange.exchange,
                                        buyPrice, sellPrice, config.includeWithdrawalFees),
                 config)

calculateRiskScoreUnclamped(buyExchange, sellExchange, spreadPercent, volume) ==
    2 * NEUTRAL_RISK_SCORE
        + 2 * (IF Below(spreadPercent, 1, 2) THEN 2
               ELSE IF Below(spreadPercent, 1, 1) THEN 1
               ELSE IF Above(spreadPercent, 2, 1) THEN -1 ELSE 0)
        + 2 * (IF volume < 1000 THEN 2
               ELSE IF volume < 10000 THEN 1
               ELSE IF volume > 100000 THEN -1 ELSE 0)
        + (IF buyExchange.fromCache THEN 1 ELSE 0)
        + (IF sellExchange.fromCache THEN 1 ELSE 0)

calculateRiskScoreIgnoringCache(buyExchange, sellExchange, spreadPercent, volume) ==
    Max(2 * 1, Min(2 * 10,
        calculateRiskScoreUnclamped(QuoteNeverCached(buyExchange.exchange, buyExchange.record, FALSE),
                                    QuoteNeverCached(sellExchange.exchange, sellExchange.record, FALSE),
                                    spreadPercent, volume)))

\* twice the risk score: Math.max(1, Math.min(10, score))
calculateRiskScore(buyExchange, sellExchange, spreadPercent, volume) ==
    Max(2 * 1, Min(2 * 10,
        calculateRiskScoreUnclamped(buyExchange, sellExchange, spreadPercent, volume)))

calculateConfidenceUnclamped(spreadPercent, volume, riskScore, buyFromCache, sellFromCache) ==
    LET den == 2 * spreadPercent.den
        bonus == (IF volume > 10000 THEN 10 ELSE 0) + (IF volume > 100000 THEN 10 ELSE 0)
                 + (IF ~buyFromCache THEN 5 ELSE 0) + (IF ~sellFromCache THEN 5 ELSE 0)
    IN  [num |-> BASE_CONFIDENCE * den + spreadPercent.num * 10 * 2
                 + (2 * 10 - riskScore) * 5 * spreadPercent.den + bonus * den,
         den |-> den]

\* Math.max(0, Math.min(100, confidence))
calculateConfidence(spreadPercent, volume, riskScore, buyFromCache, sellFromCache) ==
    LET c == calculateConfidenceUnclamped(spreadPercent, volume, riskScore,
                                          buyFromCache, sellFromCache)
    IN  [num |-> Max(0, Min(100 * c.den, c.num)), den |-> c.den]

calculateOptimalVolumeFullKelly(availableVolume, riskScore) ==
    [num |-> availableVolume * (2 * 10 - riskScore), den |-> 2 * 10]

\* availableVolume * ((10 - riskScore) / 10) * FRACTIONAL_KELLY
calculateOptimalVolume(availableVolume, riskScore) ==
    [num |-> availableVolume * (2 * 10 - riskScore) * FRACTIONAL_KELLY.num,
     den |-> 2 * 10 * FRACTIONAL_KELLY.den]

\* if (buyExchange !== sellExchange) time += 600
estimateExecutionTime(buyExchange, sellExchange) ==
    IF buyExchange # sellExchange THEN 10 + 600 ELSE 10

Null == [id |-> <<>>]

analyzeOpportunity(symbol, buyExchange, sellExchange, config, t) ==
    LET spread == Bid(sellExchange) - Ask(buyExchange)
        spreadPercent == IF Ask(buyExchange) > 0
                         THEN [num |-> spread * 100, den |-> Ask(buyExchange)]
                         ELSE [num |-> 0, den |-> 1]
        fees == calculateFees(buyExchange, sellExchange, Ask(buyExchange),
                              Bid(sellExchange), config)
        netProfit == spread - fees.totalFees
        availableVolume == Min(Volume(buyExchange), Volume(sellExchange))
        riskScore == calculateRiskScore(buyExchange, sellExchange, spreadPercent,
                                        availableVolume)
    IN  IF netProfit <= 0 THEN Null
        ELSE IF \/ ~Truthy(buyExchange, "volume", Volume(buyExchange))
                \/ ~Truthy(sellExchange, "volume", Volume(sellExchange))
                \/ Volume(buyExchange) <= 0 \/ Volume(sellExchange) <= 0
        THEN Null
        ELSE [id |-> <<symbol, buyExchange.exchange, sellExchange.exchange, t>>,
              buyExchange |-> buyExchange.exchange,
              sellExchange |-> sellExchange.exchange,
              buyPrice |-> Ask(buyExchange),
              sellPrice |-> Bid(sellExchange),
              spread |-> spread,
              spreadPercent |-> spreadPercent,
              potentialProfit |-> spread * availableVolume,
              volume |-> [available |-> availableVolume,
                          optimal |-> calculateOptimalVolume(availableVolume, riskScore)],
              fees |-> fees,
              netProfit |-> netProfit * availableVolume,
              netProfitPercent |-> [num |-> netProfit * 100, den |-> Ask(buyExchange)],
              riskScore |-> riskScore,
              executionTime |-> estimateExecutionTime(buyExchange.exchange,
                                                      sellExchange.exchange),
              confidence |-> calculateConfidence(spreadPercent, availableVolume, riskScore,
                                                 buyExchange.fromCache,
                                                 sellExchange.fromCache),
              fromCache |-> <<buyExchange.fromCache, sellExchange.fromCache>>]

meetsThresholdAlways(opportunity, config) == TRUE

meetsThreshold(opportunity, config) ==
    /\ opportunity.netProfitPercent.num * 10
            >= config.minProfitTenths * opportunity.netProfitPercent.den
    /\ opportunity.riskScore <= 2 * config.maxRiskScore
    /\ opportunity.volume.available >= config.minVolume

-----------------------------------------------------------------------------
(* AdvancedArbitrageScanner.scanForArbitrage *)

MaxScanTicks == 1       \* clock steps during the scans of one behaviour (SpecScan)
MaxHandlerCalls == 1    \* market_ticker requests in one behaviour (SpecScan)

\* an error without a code whose message is
\* "Exchange <id> does not support fetching tickers"
TickersUnsupportedError == [code |-> "none", has |-> {"does not support"}]
FetchErrors == {NetworkError, AuthError, TickersUnsupportedError}

NoQuote == Quote("none", <<"none", "none">>, FALSE)

MaxLoops == 2           \* startContinuousScanning calls in progress at once (SpecLoop)
MaxSymbols == 2         \* symbols of a configuration (SpecLoop)

LoopIds == 1..MaxLoops

\* pc: idle - no call; scan - the loop awaits scanForArbitrage for its k-th
\* symbol; sleep - it awaits sleep(scanInterval), `left` ms of which remain;
\* thrown - the call has thrown 'Scanner is already running'; returned - the
\* loop has ended.  symbols is the length of cfg.symbols.  History: stopped -
\* stopScanning was called while the loop was active; erred - the last pass
\* of the loop ended in an error.
IdleLoop ==
    [pc |-> "idle", symbols |-> 0, k |-> 0, left |-> 0, stopped |-> FALSE, erred |-> FALSE]

IdleCont ==
    [scannerRunning |-> FALSE, loop |-> [l \in LoopIds |-> IdleLoop], store |-> {}]

\* pc: none - nothing computed yet; lookup - getExchangeFees; arbitrage -
\* calculateArbitrageFees; scanner - AdvancedArbitrageScanner.calculateFees
\* (one computation is followed in a behaviour)
NoFee ==
    [pc |-> "none", buyExchange |-> "none", sellExchange |-> "none", buyPrice |-> 0,
     sellPrice |-> 0, withdrawal |-> FALSE, trading |-> FALSE,
     out |-> [buyFee |-> 0, sellFee |-> 0, withdrawalFee |-> 0, totalFees |-> 0],
     profile |-> DEFAULT_FEES]

MaxManagerCalls == 3    \* getExchange calls in progress at once (SpecManager)

ManagerCalls == 1..MaxManagerCalls

\* an absent configuration, and an absent instance
NoConfig == [testnet |-> FALSE, sandbox |-> FALSE, apiKey |-> ""]
NoInstance == 0

\* pc: idle - no call; loading - the call awaits createExchange, which awaits
\* loadMarkets of the instance `made`; returned - the call returned `made`;
\* thrown - createExchange threw 'not supported'
IdleManagerCall == [pc |-> "idle", key |-> <<>>, made |-> NoInstance]

\* exchanges is this.exchanges, the pairs <<key, instance>>; instances are
\* numbered in the order of their construction.  History: created - the pairs
\* <<key, instance>> of the instances constructed so far
NoManager ==
    [exchanges |-> {}, call |-> [c \in ManagerCalls |-> IdleManagerCall], created |-> {}]

\* pc: idle; fetch - awaiting executeBatch; done - returned `result`; failed
\* - threw.
\* look[c] tells whether the operation of call c is past its cache lookup;
\* quotes[i] is what the operation of venue i resolved with; store is
\* this.opportunities.  live[i] (the times operation i went on to the venue),
\* n, handled and fetchedAt[v] (the instant the ticker of venue v was last
\* fetched from the venue) are history.  cont, fee and manager are described above.
IdleScan ==
    [pc |-> "idle", exchanges |-> <<>>, config |-> Config(0, 0, 0, FALSE, FALSE),
     look |-> [c \in BatchSlots |-> "none"],
     quotes |-> [i \in 1..MaxBatchOps |-> NoQuote],
     live |-> [i \in 1..MaxBatchOps |-> 0],
     result |-> <<>>, store |-> {}, n |-> 0, handled |-> 0,
     fetchedAt |-> [v \in Venues |-> 0],
     cont |-> IdleCont, fee |-> NoFee, manager |-> NoManager]

\* the lists of venues that are scanned: every list of up to two venues, and
\* one list of MaxScanVenues venues, in which a venue is repeated
ScanInputs ==
    UNION {[1..n -> Venues] : n \in 0..(MaxScanVenues - 1)} \cup {<<"X", "Y", "X">>}

\* the key of the ticker of venue v
TickerKey(v) == getKey(<<v>>, BTCUSDT, NoExtra)

\* lines 420-422: the results of the operations that succeeded, in the order
\* in which executeBatch returns them
priceDataOf(results, quotes) ==
    LET ok == SelectSeq(results, LAMBDA r : r.success)
    IN  [n \in 1..Len(ok) |-> quotes[ok[n].op]]

IsCandidateAnyPrices(buyExchange, sellExchange) == TRUE

\* lines 294-296: both prices are there, positive, and the ask is below the bid
IsCandidate(buyExchange, sellExchange) ==
    /\ Truthy(buyExchange, "ask", Ask(buyExchange))
    /\ Truthy(sellExchange, "bid", Bid(sellExchange))
    /\ Ask(buyExchange) > 0 /\ Bid(sellExchange) > 0
    /\ Ask(buyExchange) < Bid(sellExchange)

\* lines 286-311: the opportunities pushed by the first k steps of the double
\* loop over priceData
RECURSIVE PairLoop(_, _, _, _)
PairLoop(priceData, config, t, k) ==
    IF k = 0 THEN <<>>
    ELSE LET n == Len(priceData)
             i == ((k - 1) \div n) + 1
             j == ((k - 1) % n) + 1
             before == PairLoop(priceData, config, t, k - 1)
             opportunity == analyzeOpportunity(BTCUSDT, priceData[i], priceData[j],
                                               config, t)
         IN  IF i # j /\ IsCandidate(priceData[i], priceData[j])
                   /\ opportunity # Null /\ meetsThreshold(opportunity, config)
             THEN Append(before, opportunity)
             ELSE before

\* opportunities.sort((a, b) => b.netProfit - a.netProfit): stable
RECURSIVE SortByNetProfit(_)
SortByNetProfit(opps) ==
    IF opps = <<>> THEN <<>>
    ELSE LET init == SortByNetProfit(SubSeq(opps, 1, Len(opps) - 1))
             last == opps[Len(opps)]
             keep == Cardinality({m \in 1..Len(init) : init[m].netProfit >= last.netProfit})
         IN  SubSeq(init, 1, keep) \o <<last>> \o SubSeq(init, keep + 1, Len(init))

\* this.opportunities.set(opp.id, opp) for every opportunity, in order
RECURSIVE StoreAll(_, _)
StoreAll(store, opps) ==
    IF opps = <<>> THEN store
    ELSE StoreAll({o \in store : o.id # Head(opps).id} \cup {Head(opps)}, Tail(opps))

\* getTicker: the hit or the miss is counted
Counted(m, hit) ==
    IF hit THEN [m EXCEPT !["ticker"].hits = @ + 1]
    ELSE [m EXCEPT !["ticker"].misses = @ + 1]

\* scanForArbitrage(symbol, exchanges, config): lines 275-283, up to the
\* await of executeBatch
scanForArbitrageCall(exchanges, config) ==
    /\ scan.pc = "idle"
    /\ executeBatchCall(exchanges)
    /\ scan' = [scan EXCEPT !.pc = "fetch", !.exchanges = exchanges, !.config = config,
                            !.quotes = [i \in 1..MaxBatchOps |-> NoQuote],
                            !.live = [i \in 1..MaxBatchOps |-> 0],
                            !.result = <<>>, !.n = @ + 1]
    /\ UNCHANGED <<rl>>
    /\ UNCHANGED cacheVars

\* a caller calls scanForArbitrage
scanForArbitrage(exchanges, config) ==
    /\ scan.n < MaxScans
    /\ scanForArbitrageCall(exchanges, config)

\* lines 385-390: the operation of call c is invoked and looks its venue up
\* in the ticker cache; on a hit it returns the cached record
operationLooksUp(c) ==
    /\ scan.pc = "fetch"
    /\ calls[c].pc = "run"
    /\ scan.look[c] = "none"
    /\ LET v == calls[c].venue
           i == c - MaxDirect
           cached == LruGet("ticker", caches["ticker"], TickerKey(v), now)
       IN
        /\ caches' = [caches EXCEPT !["ticker"] = cached.seq]
        /\ metrics' = Counted(metrics, cached.hit)
        /\ IF cached.hit
           THEN /\ scan' = [scan EXCEPT !.quotes[i] = Quote(v, cached.val, TRUE)]
                /\ retryStates' = resetState(retryStates, v)
                /\ calls' = [calls EXCEPT ![c].pc = "done", ![c].outcome = "ok"]
           ELSE /\ scan' = [scan EXCEPT !.look[c] = "miss", !.live[i] = @ + 1]
                /\ UNCHANGED <<retryStates, calls>>
    /\ UNCHANGED <<now, ret, hist, used, touched, batch, rl>>

\* lines 393-414: fetchTicker answers; the record is cached and returned
tickerFetched(c, name) ==
    /\ scan.pc = "fetch"
    /\ calls[c].pc = "run"
    /\ scan.look[c] = "miss"
    /\ LET v == calls[c].venue
           i == c - MaxDirect
           set == LruSet("ticker", caches["ticker"], TickerKey(v), ScannerRecord(name), now)
       IN
        /\ caches' = [caches EXCEPT !["ticker"] = set.seq]
        /\ scan' = [scan EXCEPT !.look[c] = "none",
                                !.quotes[i] = Quote(v, ScannerRecord(name), FALSE),
                                !.fetchedAt[v] = now]
        /\ retryStates' = resetState(retryStates, v)
        /\ calls' = [calls EXCEPT ![c].pc = "done", ![c].outcome = "ok"]
    /\ UNCHANGED <<now, metrics, ret, hist, used, touched, batch, rl>>

\* lines 393-399: getExchange or fetchTicker rejects, or the venue has no
\* fetchTicker; executeWithBackoff catches the error
tickerFetchFails(c, error) ==
    /\ scan.pc = "fetch"
    /\ calls[c].pc = "run"
    /\ scan.look[c] = "miss"
    /\ \/ calls[c].attempts < MaxScanAttempts
       \/ isNonRetryableError(error)
       \/ retriesExceeded(retryStates[calls[c].venue].retryCount + 1)
    /\ \E j \in Jitters :
        LET r == Catch(calls, retryStates, c, error, j) IN
            /\ calls' = r.calls
            /\ retryStates' = r.rs
    /\ scan' = [scan EXCEPT !.look[c] = "none"]
    /\ UNCHANGED <<batch, rl>>
    /\ UNCHANGED cacheVars

\* lines 283-324: executeBatch has returned; the pairs are analysed, the
\* opportunities sorted, stored and returned (a rejection of executeBatch
\* would reject the scan)
scanReturns ==
    /\ scan.pc = "fetch"
    /\ batch.pc \in {"done", "rejected"}
    /\ LET priceData == priceDataOf(batch.results, scan.quotes)
           opportunities == SortByNetProfit(
                PairLoop(priceData, scan.config, now, Len(priceData) * Len(priceData)))
       IN  scan' = IF batch.pc = "rejected"
                   THEN [scan EXCEPT !.pc = "failed"]
                   ELSE [scan EXCEPT !.pc = "done", !.result = opportunities,
                                     !.store = StoreAll(@, opportunities)]
    /\ batch' = IdleBatch
    /\ UNCHANGED <<retryStates, calls, rl>>
    /\ UNCHANGED cacheVars

\* the caller of scanForArbitrage resumes with the list
scanCallerResumes ==
    /\ scan.pc \in {"done", "failed"}
    /\ scan' = [scan EXCEPT !.pc = "idle"]
    /\ UNCHANGED <<retryStates, calls, batch, rl>>
    /\ UNCHANGED cacheVars

\* d ms pass while the scan awaits its tickers
timePasses(d) ==
    /\ scan.pc = "fetch"
    /\ used.ticks < MaxScanTicks
    /\ Advance(d)

\* index.ts, handleMarketTicker for venue v: on a cache hit the cached record
\* is returned; on a miss the ticker is fetched through executeWithRateLimit
\* and the handler's record of it cached (here the fetch succeeds at once, and
\* the request comes before the first lookup of the scan)
handleMarketTicker(v, name) ==
    /\ scan.handled < MaxHandlerCalls
    /\ scan.pc = "fetch"
    /\ \A i \in 1..MaxBatchOps : scan.quotes[i] = NoQuote /\ scan.live[i] = 0
    /\ \A c \in CallIds : ~(Pending(calls[c]) /\ calls[c].venue = v)
    /\ LET cached == LruGet("ticker", caches["ticker"], TickerKey(v), now)
           set == LruSet("ticker", cached.seq, TickerKey(v), HandlerRecord(name), now)
       IN
        /\ metrics' = Counted(metrics, cached.hit)
        /\ IF cached.hit
           THEN /\ caches' = [caches EXCEPT !["ticker"] = cached.seq]
                /\ scan' = [scan EXCEPT !.handled = @ + 1]
                /\ UNCHANGED retryStates
           ELSE /\ caches' = [caches EXCEPT !["ticker"] = set.seq]
                /\ scan' = [scan EXCEPT !.handled = @ + 1, !.fetchedAt[v] = now]
                /\ retryStates' = resetState(getOrCreateState(retryStates, v), v)
    /\ UNCHANGED <<now, ret, hist, used, touched, calls, batch, rl>>

-----------------------------------------------------------------------------
(* ExchangeManager.executeWithRateLimit: executeWithBackoff raced against a *)
(* timeout; here the clock runs, and a timer fires when no timer is due     *)
(* before it                                                                *)

MaxRateLimitCalls == 1      \* executeWithRateLimit calls in one behaviour (SpecRateLimit)

\* timeout: number = 30000
rateLimitTimeout == 30000

\* how long the venue takes to answer one attempt, ms
Latencies == {0, 250}

\* pc: idle; pending - the race is on; done - the race has settled with
\* `outcome`.  slot is the executeWithBackoff call of the race, timer tells
\* whether the timeout is still to fire at `deadline`, wake[c] is when the
\* backoff sleep of call c ends, n counts the calls made.
IdleRateLimit ==
    [pc |-> "idle", slot |-> 0, outcome |-> "none", timer |-> FALSE, deadline |-> 0,
     wake |-> [c \in Direct |-> 0], n |-> 0]

\* the instants at which a pending timer is due
TimersDue ==
    {rl.wake[c] : c \in {d \in Direct : calls[d].pc = "sleep"}}
        \cup (IF rl.timer THEN {rl.deadline} ELSE {})

\* the clock may reach t: no timer is due before
MayReach(t) == t >= now /\ \A due \in TimersDue : t <= due

\* the sleep that call c has just entered, if any, ends `delay` ms from t
Woken(w, cs, t) ==
    [c \in Direct |-> IF cs[c].pc = "sleep" /\ calls[c].pc # "sleep"
                       THEN t + cs[c].delay ELSE w[c]]

\* Promise.race: the first of the two promises to settle decides
RaceSettled(r, cs) ==
    IF r.pc = "pending" /\ cs[r.slot].pc = "done"
    THEN [r EXCEPT !.pc = "done", !.outcome = cs[r.slot].outcome]
    ELSE r

\* lines 712-735 up to the return: the timer is armed and executeWithBackoff called
executeWithRateLimit(c, v) ==
    /\ rl.pc = "idle"
    /\ rl.n < MaxRateLimitCalls
    /\ calls[c].pc = "idle"
    /\ \E j \in Jitters :
        LET e == Enter(Begin(calls, c, v), retryStates, c, j) IN
            /\ calls' = e.calls
            /\ retryStates' = e.rs
            /\ rl' = [rl EXCEPT !.pc = "pending", !.slot = c, !.outcome = "none",
                                !.timer = TRUE, !.deadline = now + rateLimitTimeout,
                                !.wake = Woken(rl.wake, e.calls, now), !.n = @ + 1]
    /\ UNCHANGED <<batch, scan>>
    /\ UNCHANGED cacheVars

\* the backoff sleep of call c ends and the operation is invoked
backoffTimerFires(c) ==
    /\ calls[c].pc = "sleep"
    /\ MayReach(rl.wake[c])
    /\ now' = rl.wake[c]
    /\ calls' = [calls EXCEPT ![c].pc = "run", ![c].delay = 0, ![c].slept = TRUE,
                              ![c].attempts = @ + 1]
    /\ UNCHANGED <<retryStates, batch, scan, rl>>
    /\ UNCHANGED <<caches, metrics, ret, hist, used, touched>>

\* the timeout fires: the race rejects with the timeout error unless it has settled
timeoutFires ==
    /\ rl.timer
    /\ MayReach(rl.deadline)
    /\ now' = rl.deadline
    /\ rl' = IF rl.pc = "pending"
             THEN [rl EXCEPT !.timer = FALSE, !.pc = "done", !.outcome = "timeout"]
             ELSE [rl EXCEPT !.timer = FALSE]
    /\ UNCHANGED <<retryStates, calls, batch, scan>>
    /\ UNCHANGED <<caches, metrics, ret, hist, used, touched>>

\* the operation of call c succeeds after d ms
timedOperationResolves(c, d) ==
    /\ calls[c].pc = "run"
    /\ MayReach(now + d)
    /\ now' = now + d
    /\ retryStates' = resetState(retryStates, calls[c].venue)
    /\ LET cs == [calls EXCEPT ![c].pc = "done", ![c].outcome = "ok"] IN
        /\ calls' = cs
        /\ rl' = RaceSettled(rl, cs)
    /\ UNCHANGED <<batch, scan>>
    /\ UNCHANGED <<caches, metrics, ret, hist, used, touched>>

\* the operation of call c fails after d ms
timedOperationRejects(c, error, d) ==
    /\ calls[c].pc = "run"
    /\ MayReach(now + d)
    /\ now' = now + d
    /\ \E j \in Jitters :
        LET r == Catch(calls, retryStates, c, error, j) IN
            /\ calls' = r.calls
            /\ retryStates' = r.rs
            /\ rl' = [RaceSettled(rl, r.calls) EXCEPT !.wake = Woken(rl.wake, r.calls, now + d)]
    /\ UNCHANGED <<batch, scan>>
    /\ UNCHANGED <<caches, metrics, ret, hist, used, touched>>

\* a settled executeWithBackoff call is done with
backoffCallEnds(c) ==
    /\ calls[c].pc = "done"
    /\ rl.pc = "pending" => rl.slot # c
    /\ calls' = [calls EXCEPT ![c] = IdleCall]
    /\ UNCHANGED <<retryStates, batch, scan, rl>>
    /\ UNCHANGED cacheVars

\* the caller of executeWithRateLimit resumes with the outcome of the race
rateLimitCallerResumes ==
    /\ rl.pc = "done"
    /\ rl' = [rl EXCEPT !.pc = "idle"]
    /\ UNCHANGED <<retryStates, calls, batch, scan>>
    /\ UNCHANGED cacheVars

-----------------------------------------------------------------------------
(* AdvancedArbitrageScanner: startContinuousScanning, stopScanning and      *)
(* clearOldOpportunities.  Here a scan is one step from its call to its     *)
(* return, time passes in steps of the scan interval, and an opportunity of *)
(* the store is known by its symbol and its age (its id holds the instant   *)
(* it was made at).                                                         *)

\* cfg.scanInterval as the callers of the model set it, ms
scanInterval == 300000

\* clearOldOpportunities(maxAge = 300000)
maxAge == 300000

\* every age above maxAge is kept as this one
AgeCap == maxAge + scanInterval

\* the continuous scanning of the scanner
cont == scan.cont

Active(lp) == lp.pc \in {"scan", "sleep"}

\* line 363: await this.sleep(cfg.scanInterval)
Sleep(lp) == [lp EXCEPT !.pc = "sleep", !.k = 0, !.left = scanInterval]

\* lines 339-341: while (this.scannerRunning) - the next pass starts with the
\* first symbol, or the loop ends
LoopCheck(lp, running) ==
    IF running THEN [lp EXCEPT !.pc = "scan", !.k = 1, !.left = 0]
    ELSE [lp EXCEPT !.pc = "returned", !.k = 0, !.left = 0]

OnScanErrorRethrow(lp) == [lp EXCEPT !.pc = "returned", !.k = 0, !.erred = TRUE]

\* lines 358-363: catch (error) { console.error(...) }, then the sleep
OnScanError(lp) == [Sleep(lp) EXCEPT !.erred = TRUE]

\* lines 341-357: the scan of the k-th symbol has returned; the next symbol is
\* scanned, or the pass is over and the loop sleeps
OnScanReturn(lp) ==
    IF lp.k < lp.symbols
    THEN [lp EXCEPT !.k = @ + 1, !.erred = FALSE]
    ELSE [Sleep(lp) EXCEPT !.erred = FALSE]

\* lines 329-341: startContinuousScanning(config), up to the first await
startContinuousScanning(l, n) ==
    /\ cont.loop[l].pc = "idle"
    /\ IF cont.scannerRunning
       THEN scan' = [scan EXCEPT !.cont = [cont EXCEPT !.loop[l].pc = "thrown"]]
       ELSE scan' = [scan EXCEPT !.cont = [cont EXCEPT !.scannerRunning = TRUE,
                                 !.loop[l] = LoopCheck([IdleLoop EXCEPT !.symbols = n], TRUE)]]
    /\ UNCHANGED <<cacheVars, limiterVars, rl>>

\* lines 371-374: stopScanning()
stopScanning ==
    /\ scan' = [scan EXCEPT !.cont = [cont EXCEPT !.scannerRunning = FALSE,
                            !.loop = [l \in LoopIds |->
                                        IF Active(cont.loop[l])
                                        THEN [cont.loop[l] EXCEPT !.stopped = TRUE]
                                        ELSE cont.loop[l]]]]
    /\ UNCHANGED <<cacheVars, limiterVars, rl>>

\* lines 317-319 and 341-357: the scan of loop l returns, having stored the
\* opportunity it found, if any, under an id of this instant
loopScanReturns(l, found) ==
    /\ cont.loop[l].pc = "scan"
    /\ scan' = [scan EXCEPT !.cont = [cont EXCEPT
            !.store = IF found THEN @ \cup {[symbol |-> cont.loop[l].k, age |-> 0]} ELSE @,
            !.loop[l] = OnScanReturn(@)]]
    /\ UNCHANGED <<cacheVars, limiterVars, rl>>

\* an error is thrown inside the pass of loop l
loopScanThrows(l) ==
    /\ cont.loop[l].pc = "scan"
    /\ scan' = [scan EXCEPT !.cont = [cont EXCEPT !.loop[l] = OnScanError(@)]]
    /\ UNCHANGED <<cacheVars, limiterVars, rl>>

\* scanInterval ms pass: no timer is due before; the sleeps end, the
\* opportunities age
intervalPasses ==
    /\ \A l \in LoopIds : cont.loop[l].pc = "sleep" => cont.loop[l].left > 0
    /\ scan' = [scan EXCEPT !.cont = [cont EXCEPT
            !.store = {[e EXCEPT !.age = Min(@ + scanInterval, AgeCap)] : e \in @},
            !.loop = [l \in LoopIds |->
                        IF cont.loop[l].pc = "sleep"
                        THEN [cont.loop[l] EXCEPT !.left = Max(0, @ - scanInterval)]
                        ELSE cont.loop[l]]]]
    /\ UNCHANGED <<cacheVars, limiterVars, rl>>

\* the sleep of loop l is over: the loop tests scannerRunning
loopWakes(l) ==
    /\ cont.loop[l].pc = "sleep"
    /\ cont.loop[l].left = 0
    /\ scan' = [scan EXCEPT !.cont = [cont EXCEPT !.loop[l] = LoopCheck(@, cont.scannerRunning)]]
    /\ UNCHANGED <<cacheVars, limiterVars, rl>>

\* the caller of startContinuousScanning sees its promise settle
loopCallerResumes(l) ==
    /\ cont.loop[l].pc \in {"thrown", "returned"}
    /\ scan' = [scan EXCEPT !.cont = [cont EXCEPT !.loop[l] = IdleLoop]]
    /\ UNCHANGED <<cacheVars, limiterVars, rl>>

\* lines 717-726: clearOldOpportunities() with the default maxAge
clearOldOpportunities ==
    /\ scan' = [scan EXCEPT !.cont = [cont EXCEPT !.store = {e \in @ : ~(e.age > maxAge)}]]
    /\ UNCHANGED <<cacheVars, limiterVars, rl>>

-----------------------------------------------------------------------------
-----------------------------------------------------------------------------
(* Repeated scanning of the same venues, as startContinuousScanning does    *)
(* it: a scan, the sleep of the scan interval, the next scan.  Here every   *)
(* fetch succeeds, and no time passes during a scan.                        *)

MaxRescans == 4         \* scans in one behaviour (SpecRescan)
MaxRescanTicks == 3     \* sleeps between the scans of one behaviour (SpecRescan)

\* defaultConfig.scanInterval, ms
defaultScanInterval == 5000

\* cfg.exchanges, and the tickers the venues answer with
RescanInputs == {<<"X">>, <<"X", "Y">>}
RescanTickers == {"qA", "qB"}

\* line 342: the loop calls scanForArbitrage(symbol, cfg.exchanges, cfg),
\* at first and after every sleep
loopScans(exchanges) ==
    /\ scan.n < MaxRescans
    /\ scan.n = used.ticks
    /\ scanForArbitrageCall(exchanges, Config(1, 7, 100, TRUE, TRUE))

\* line 363: the loop sleeps for the scan interval
loopSleeps ==
    /\ scan.pc = "idle"
    /\ used.ticks < scan.n
    /\ used.ticks < MaxRescanTicks
    /\ Elapse(defaultScanInterval)

(* The fee functions, applied to arguments of the caller's choice *)

\* venue ids: those of the fee table, one that is not in it, and one of the
\* table in another case
FeeVenues == DOMAIN EXCHANGE_FEES \cup {"unlisted", "Binance"}

\* prices, thousandths of a dollar: 100, 200 and 300 dollars
FeePrices == {100000, 200000, 300000}

\* the fee computation
fee == scan.fee

\* getExchangeFees(exchangeId) is called
feesLookedUp(exchangeId) ==
    /\ fee.pc = "none"
    /\ scan' = [scan EXCEPT !.fee = [NoFee EXCEPT !.pc = "lookup", !.buyExchange = exchangeId,
                            !.profile = getExchangeFees(exchangeId)]]
    /\ UNCHANGED <<cacheVars, limiterVars, rl>>

\* calculateArbitrageFees(buyExchange, sellExchange, buyPrice, sellPrice,
\* includeWithdrawal) is called
arbitrageFeesCalculated(buyExchange, sellExchange, buyPrice, sellPrice, includeWithdrawal) ==
    /\ fee.pc = "none"
    /\ scan' = [scan EXCEPT !.fee = [NoFee EXCEPT !.pc = "arbitrage",
                            !.buyExchange = buyExchange, !.sellExchange = sellExchange,
                            !.buyPrice = buyPrice, !.sellPrice = sellPrice,
                            !.withdrawal = includeWithdrawal, !.trading = TRUE,
                            !.out = calculateArbitrageFees(buyExchange, sellExchange, buyPrice,
                                                           sellPrice, includeWithdrawal)]]
    /\ UNCHANGED <<cacheVars, limiterVars, rl>>

\* the scanner's calculateFees is called for two quotes under a configuration
scannerFeesCalculated(buyExchange, sellExchange, buyPrice, sellPrice, config) ==
    /\ fee.pc = "none"
    /\ scan' = [scan EXCEPT !.fee = [NoFee EXCEPT !.pc = "scanner",
                            !.buyExchange = buyExchange, !.sellExchange = sellExchange,
                            !.buyPrice = buyPrice, !.sellPrice = sellPrice,
                            !.withdrawal = config.includeWithdrawalFees,
                            !.trading = config.includeTradingFees,
                            !.out = calculateFees([exchange |-> buyExchange],
                                                  [exchange |-> sellExchange],
                                                  buyPrice, sellPrice, config)]]
    /\ UNCHANGED <<cacheVars, limiterVars, rl>>

(* ExchangeManager: the cache of exchange instances *)

\* ccxt.exchanges, and the ids a caller passes
ccxtExchanges == {"binance", "kraken"}
ExchangeIds == ccxtExchanges \cup {"nosuch"}

\* the configurations a caller passes
ExchangeConfigs ==
    {NoConfig, [NoConfig EXCEPT !.testnet = TRUE], [NoConfig EXCEPT !.apiKey = "key1"],
     [NoConfig EXCEPT !.apiKey = "key2"]}

\* the first 8 hex digits of the SHA-256 of an API key
HashPrefix(apiKey) ==
    CASE apiKey = "key1" -> "81740996"
      [] apiKey = "key2" -> "b1025376"
      [] OTHER -> "00000000"

\* parts.join(':')
getExchangeKey(exchangeId, config) ==
    <<exchangeId>>
        \o (IF config.testnet THEN <<":", "testnet">> ELSE <<>>)
        \o (IF config.sandbox THEN <<":", "sandbox">> ELSE <<>>)
        \o (IF config.apiKey # "" THEN <<":", HashPrefix(config.apiKey)>> ELSE <<>>)

\* the exchange manager
manager == scan.manager

\* this.exchanges.has(key), .get(key), .set(key, exchange)
HasExchange(exchanges, key) == \E e \in exchanges : e[1] = key
GetExchange(exchanges, key) == (CHOOSE e \in exchanges : e[1] = key)[2]
SetExchange(exchanges, key, exchange) ==
    {e \in exchanges : e[1] # key} \cup {<<key, exchange>>}

\* getExchange(exchangeId, config) is called as call c and runs to its first
\* await or to its end: a cached instance is returned; createExchange throws
\* for an unknown id, and otherwise constructs an instance and awaits its
\* loadMarkets
getExchange(c, exchangeId, config) ==
    LET key == getExchangeKey(exchangeId, config)
        exchange == Cardinality(manager.created) + 1
    IN  /\ manager.call[c].pc = "idle"
        /\ scan' = [scan EXCEPT !.manager =
              IF HasExchange(manager.exchanges, key)
                THEN [manager EXCEPT !.call[c] =
                        [pc |-> "returned", key |-> key,
                         made |-> GetExchange(manager.exchanges, key)]]
              ELSE IF exchangeId \notin ccxtExchanges
                THEN [manager EXCEPT !.call[c] =
                        [pc |-> "thrown", key |-> key, made |-> NoInstance]]
              ELSE [manager EXCEPT !.call[c] =
                        [pc |-> "loading", key |-> key, made |-> exchange],
                                   !.created = @ \cup {<<key, exchange>>}]]
        /\ UNCHANGED <<cacheVars, limiterVars, rl>>

\* loadMarkets of call c's instance settles (a failure is logged and
\* ignored): createExchange returns, and getExchange stores the instance and
\* returns it
marketsLoaded(c) ==
    /\ manager.call[c].pc = "loading"
    /\ scan' = [scan EXCEPT !.manager =
          [manager EXCEPT !.call[c].pc = "returned",
                          !.exchanges = SetExchange(@, manager.call[c].key,
                                                    manager.call[c].made)]]
    /\ UNCHANGED <<cacheVars, limiterVars, rl>>


InitAppVars ==
    /\ scan = IdleScan
    /\ rl = IdleRateLimit

-----------------------------------------------------------------------------
(* Specifications *)

Init == InitCacheVars /\ InitLimiterVars /\ InitAppVars

\* the cache alone
SpecCache == Init /\ [][NextCache]_vars

\* concurrent executeWithBackoff calls
Next ==
    \/ \E c \in Direct, v \in Venues : executeWithBackoff(c, v)
    \/ \E c \in Direct : sleepResolves(c)
    \/ \E c \in Direct : operationResolves(c)
    \/ \E c \in Direct, error \in OpErrors : operationRejects(c, error, MaxAttempts)
    \/ \E c \in Direct : callerResumes(c)

Spec == Init /\ [][Next]_vars

\* an executeBatch call and one concurrent executeWithBackoff call
NextBatch ==
    \/ \E v \in Venues : executeWithBackoff(1, v)
    \/ \E c \in {1} \cup BatchSlots : sleepResolves(c)
    \/ \E c \in {1} \cup BatchSlots : operationResolves(c)
    \/ \E c \in {1} \cup BatchSlots, error \in OpErrors :
            operationRejects(c, error, MaxBatchAttempts)
    \/ callerResumes(1)
    \/ \E ops \in BatchInputs : executeBatch(ops)
    \/ batchResumes
    \/ staggerResolves
    \/ batchCallerResumes

SpecBatch == Init /\ [][NextBatch]_vars

\* executeWithRateLimit calls, the backoff of a timed-out call going on beside
\* the next call
NextRateLimit ==
    \/ \E c \in Direct, v \in Venues : executeWithRateLimit(c, v)
    \/ \E c \in Direct : backoffTimerFires(c)
    \/ timeoutFires
    \/ \E c \in Direct, d \in Latencies : timedOperationResolves(c, d)
    \/ \E c \in Direct, error \in OpErrors, d \in Latencies :
            timedOperationRejects(c, error, d)
    \/ \E c \in Direct : backoffCallEnds(c)
    \/ rateLimitCallerResumes

SpecRateLimit == Init /\ [][NextRateLimit]_vars

\* a scan, market_ticker requests beside it, and the clock
NextScan ==
    \/ \E exchanges \in ScanInputs, config \in Configs : scanForArbitrage(exchanges, config)
    \/ \E c \in BatchSlots : operationLooksUp(c)
    \/ \E c \in BatchSlots, name \in TickerNames : tickerFetched(c, name)
    \/ \E c \in BatchSlots, error \in FetchErrors : tickerFetchFails(c, error)
    \/ \E c \in BatchSlots : sleepResolves(c)
    \/ batchResumes
    \/ staggerResolves
    \/ scanReturns
    \/ scanCallerResumes
    \/ \E v \in Venues, name \in HandlerTickers : handleMarketTicker(v, name)
    \/ \E d \in Steps : timePasses(d)

SpecScan == Init /\ [][NextScan]_vars

\* the continuous scanning loops: a scan terminates, time passes and a loop
\* whose sleep is over goes on (every step of the scanner is taken; the calls
\* of startContinuousScanning, stopScanning and clearOldOpportunities are up
\* to their callers)
NextLoop ==
    \/ \E l \in LoopIds, n \in 1..MaxSymbols : startContinuousScanning(l, n)
    \/ stopScanning
    \/ \E l \in LoopIds, found \in BOOLEAN : loopScanReturns(l, found)
    \/ \E l \in LoopIds : loopScanThrows(l)
    \/ intervalPasses
    \/ \E l \in LoopIds : loopWakes(l)
    \/ \E l \in LoopIds : loopCallerResumes(l)
    \/ clearOldOpportunities

LoopFairness ==
    /\ \A l \in LoopIds :
        /\ WF_vars(\E found \in BOOLEAN : loopScanReturns(l, found))
        /\ WF_vars(loopWakes(l))
    /\ WF_vars(intervalPasses)

SpecLoop == Init /\ [][NextLoop]_vars /\ LoopFairness

\* the fee functions
NextFees ==
    \/ /\ fee.pc = "none"
       /\ \E exchangeId \in FeeVenues : feesLookedUp(exchangeId)
    \/ /\ fee.pc = "none"
       /\ \E b \in FeeVenues, s \in FeeVenues, bp \in FeePrices, sp \in FeePrices,
             w \in BOOLEAN : arbitrageFeesCalculated(b, s, bp, sp, w)
    \/ /\ fee.pc = "none"
       /\ \E b \in FeeVenues, s \in FeeVenues, bp \in FeePrices, sp \in FeePrices,
             config \in Configs : scannerFeesCalculated(b, s, bp, sp, config)

SpecFees == Init /\ [][NextFees]_vars

\* repeated scans
NextRescan ==
    \/ \E exchanges \in RescanInputs : loopScans(exchanges)
    \/ \E c \in BatchSlots : operationLooksUp(c)
    \/ \E c \in BatchSlots, name \in RescanTickers : tickerFetched(c, name)
    \/ batchResumes
    \/ staggerResolves
    \/ scanReturns
    \/ scanCallerResumes
    \/ loopSleeps

SpecRescan == Init /\ [][NextRescan]_vars

\* concurrent getExchange calls
NextManager ==
    \/ \E c \in ManagerCalls, exchangeId \in ExchangeIds, config \in ExchangeConfigs :
            getExchange(c, exchangeId, config)
    \/ \E c \in ManagerCalls : marketsLoaded(c)

SpecManager == Init /\ [][NextManager]_vars


-----------------------------------------------------------------------------
(* Claims about MarketDataCache, checked under SpecCache *)

\* what the history says about the request the last get was for
LastSet == hist[ret.req]

\* C1: getTicker returns absent whenever more than the ticker TTL (10 s) has
\* elapsed since the last setTicker of that key, also when the key was read
\* in the meantime
C1_StaleTickerIsAbsent ==
    (/\ ret.op = "get"
     /\ ret.req.cls = "ticker"
     /\ LastSet # NoHist
     /\ now - LastSet.at > TICKER_TTL_MS)
    => ret.val = Absent

\* C2: a get issued before the TTL has elapsed since the last set of its key,
\* with no clear and no capacity eviction in between, returns the value last
\* set; a get of a key that was never set returns absent
C2_RoundTrip ==
    ret.op = "get" =>
        /\ LastSet = NoHist => ret.val = Absent
        /\ (/\ LastSet # NoHist
            /\ ~LastSet.gone
            /\ now - LastSet.at < CacheOptions(ret.req.cls).ttl)
           => ret.val = LastSet.val

\* a value read back within the TTL, some time after it was set, while an
\* entry of another class has already expired
C2_Witness ==
    /\ ret.op = "get"
    /\ ret.val = "v2"
    /\ LastSet # NoHist /\ ~LastSet.gone
    /\ now > LastSet.at
    /\ now - LastSet.at < CacheOptions(ret.req.cls).ttl

-----------------------------------------------------------------------------
(* Claims about executeWithBackoff, checked under Spec *)

VenueState(c) == retryStates[calls[c].venue]

\* every attempt of call c so far failed with a retryable error, and the call
\* has settled
AlwaysFailedRetryably(c) ==
    /\ calls[c].pc = "done"
    /\ calls[c].pure
    /\ calls[c].fails = calls[c].attempts

RaisesMaxRetries(c) ==
    calls[c].outcome # "maxRetries" /\ calls'[c].outcome = "maxRetries"

\* the step in which slot c is entered by a new call
CallStarts(c) == calls[c].pc = "idle" /\ calls'[c].pc # "idle"

\* C4: the max-retries error is raised to the caller once, by the attempt
\* that failed and by nothing after it; when it is raised the venue's
\* retryCount and consecutiveErrors are 0; and a call that starts while the
\* venue's retryCount is 0 makes its first attempt without a backoff sleep
C4_RaisedOnceStateReset ==
    [][\A c \in CallIds :
        /\ RaisesMaxRetries(c) =>
            /\ calls[c].pc = "run" /\ calls'[c].pc = "done"
            /\ retryStates'[calls[c].venue].retryCount = 0
            /\ retryStates'[calls[c].venue].consecutiveErrors = 0
        /\ calls[c].pc = "done" =>
            \/ calls'[c] = calls[c]
            \/ calls'[c].pc = "idle"
        /\ (CallStarts(c) /\ retryStates[calls'[c].venue].retryCount = 0) =>
            (calls'[c].pc = "run" /\ ~calls'[c].slept /\ calls'[c].delay = 0)
      ]_vars

\* a call has raised the max-retries error and the next call for the venue,
\* started after it, is in its first attempt without having slept
C4_Witness ==
    \E c, d \in CallIds :
        /\ calls[c].pc = "done" /\ calls[c].outcome = "maxRetries"
        /\ calls[d].venue = calls[c].venue
        /\ calls[d].alone
        /\ calls[d].pc = "run" /\ calls[d].attempts = 1 /\ ~calls[d].slept
        /\ VenueState(c).retryCount = 0 /\ VenueState(c).consecutiveErrors = 0

\* the step in which the first attempt of call c fails with a non-retryable error
FirstAttemptFailsFatally(c) ==
    /\ calls[c].pc = "run" /\ calls[c].attempts = 1
    /\ calls'[c].fails = 1
    /\ ~calls'[c].pure

\* C5, as claimed: the error is propagated at once with no further attempt,
\* and the venue's retryCount is left at 1
C5_FatalLeavesRetryCountAtOne ==
    [][\A c \in CallIds :
        FirstAttemptFailsFatally(c) =>
            /\ calls'[c].pc = "done" /\ calls'[c].attempts = 1
            /\ calls'[c].outcome = "error"
            /\ retryStates'[calls[c].venue].retryCount = 1
      ]_vars

\* C5, amended: the call raises at once with no further attempt and the
\* venue's retryCount (and consecutiveErrors) is 0 afterwards; what is raised
\* is the underlying error, unless the venue's retryCount had reached
\* maxRetries already, when it is the max-retries error
C5_FatalResetsRetryCount ==
    [][\A c \in CallIds :
        FirstAttemptFailsFatally(c) =>
            /\ calls'[c].pc = "done" /\ calls'[c].attempts = 1
            /\ isNonRetryableError(calls'[c].err)
            /\ calls'[c].outcome =
                IF retryStates[calls[c].venue].retryCount < 5 THEN "error" ELSE "maxRetries"
            /\ retryStates'[calls[c].venue].retryCount = 0
            /\ retryStates'[calls[c].venue].consecutiveErrors = 0
      ]_vars

C5_Witness ==
    \E c \in CallIds :
        /\ calls[c].pc = "done" /\ calls[c].attempts = 1 /\ calls[c].fails = 1
        /\ calls[c].outcome = "error" /\ calls[c].err = AuthError
        /\ calls[c].alone
        /\ VenueState(c).retryCount = 0

\* C7: when an operation succeeds the call settles with the result, the
\* venue's retryCount and consecutiveErrors are 0 right after, whatever
\* number of failures came before, and no other venue's state changes
C7_SuccessResetsOnlyItsVenue ==
    [][\A c \in CallIds :
        (calls[c].pc = "run" /\ calls'[c].outcome = "ok") =>
            /\ calls'[c].pc = "done"
            /\ retryStates'[calls[c].venue].retryCount = 0
            /\ retryStates'[calls[c].venue].consecutiveErrors = 0
            /\ \A w \in Venues \ {calls[c].venue} : retryStates'[w] = retryStates[w]
      ]_vars

\* a call succeeded after failures while another venue is in its retries
C7_Witness ==
    \E c \in CallIds :
        /\ calls[c].pc = "done" /\ calls[c].outcome = "ok" /\ calls[c].fails >= 2
        /\ VenueState(c).retryCount = 0
        /\ \E w \in Venues \ {calls[c].venue} : retryStates[w].retryCount > 1

\* 2^(k-1) * 1000 for k = 1..5
BackoffBase(k) ==
    CASE k = 1 -> 1000 [] k = 2 -> 2000 [] k = 3 -> 4000 [] k = 4 -> 8000 [] k = 5 -> 16000

\* C10: the sleep before the attempt that follows the k-th consecutive
\* failure of the venue (k = 1..5) lasts between 2^(k-1) s and 2^(k-1) s + 1 s
\* and never more than 60 s; a call that finds retryCount 0 on entry does
\* not sleep before its attempt
C10_BackoffDelay ==
    \A c \in CallIds :
        /\ calls[c].pc = "sleep" =>
            /\ calls[c].rcEntry \in 1..5
            /\ calls[c].delay >= BackoffBase(calls[c].rcEntry)
            /\ calls[c].delay <= BackoffBase(calls[c].rcEntry) + 1000
            /\ calls[c].delay <= 60000
            /\ calls[c].alone =>
                /\ calls[c].rcEntry = calls[c].fails
                /\ calls[c].rcEntry = VenueState(c).consecutiveErrors
        /\ calls[c].pc = "run" => (calls[c].slept <=> calls[c].rcEntry > 0)
        /\ calls[c].pc \in {"idle", "done"} => calls[c].delay = 0

C10_Witness ==
    \E c \in CallIds :
        /\ calls[c].pc = "sleep" /\ calls[c].alone
        /\ calls[c].fails = 5 /\ calls[c].delay = 16999

-----------------------------------------------------------------------------
(* Claims about executeBatch, checked under SpecBatch *)

\* C6, as claimed: no two attempts for the same venue are ever in flight at
\* the same time, whoever made the calls
C6_OneAttemptPerVenue ==
    \A c, d \in CallIds :
        (c # d /\ InFlight(calls[c]) /\ InFlight(calls[d])) => calls[c].venue # calls[d].venue

\* C6, amended: two attempts for the same venue are in flight at the same
\* time only if they belong to different callers: the attempts made by one
\* executeBatch call, like those of one executeWithBackoff call, run one
\* after the other
C6_OneAttemptPerVenueAndCaller ==
    \A c, d \in CallIds :
        (c # d /\ InFlight(calls[c]) /\ InFlight(calls[d]) /\ calls[c].venue = calls[d].venue)
            => ~(c \in BatchSlots /\ d \in BatchSlots)

\* an attempt of the batch and an attempt of another caller, same venue, both in flight
C6_Witness ==
    \E d \in BatchSlots :
        /\ InFlight(calls[1]) /\ InFlight(calls[d])
        /\ calls[1].venue = calls[d].venue
        /\ batch.pc = "op"

Results == batch.results

\* C8: executeBatch never rejects; it returns one entry per operation,
\* success for those that succeeded and failure for those that ended in a
\* terminal error, and every operation was executed whatever failed before it
C8_BatchSettlesEveryOperation ==
    /\ batch.pc # "rejected"
    /\ batch.pc = "done" =>
        /\ Len(Results) = Len(batch.ops)
        /\ \A i \in 1..Len(batch.ops) :
                Cardinality({n \in 1..Len(Results) : Results[n].op = i}) = 1
        /\ \A n \in 1..Len(Results) :
            /\ Results[n].ran
            /\ Results[n].outcome \in {"ok", "error", "maxRetries"}
            /\ Results[n].success <=> Results[n].outcome = "ok"

\* a batch over two venues returned although its first operation failed
C8_Witness ==
    /\ batch.pc = "done"
    /\ batch.ops = <<"X", "X", "Y">>
    /\ Len(Results) = 3
    /\ ~Results[1].success /\ Results[2].success /\ Results[3].success

\* the input index at which venue v first appears
FirstOf(v) == CHOOSE i \in 1..Len(batch.ops) :
                /\ batch.ops[i] = v
                /\ \A h \in 1..(i - 1) : batch.ops[h] # v

\* operation i is started before operation h
Before(i, h) ==
    \/ FirstOf(batch.ops[i]) < FirstOf(batch.ops[h])
    \/ batch.ops[i] = batch.ops[h] /\ i < h

StartsOf(log) == SelectSeq(log, LAMBDA e : e.kind = "start")

-----------------------------------------------------------------------------
(* Claims about executeWithRateLimit, checked under SpecRateLimit *)

\* the call of the race has failed with a retryable error on every attempt it
\* has finished
RaceOnlyFailedRetryably ==
    /\ rl.slot \in Direct
    /\ calls[rl.slot].pure
    /\ calls[rl.slot].fails >= 1
    /\ calls[rl.slot].fails >= calls[rl.slot].attempts - 1

\* C11: when the operation of an executeWithRateLimit call with the default
\* 30 s timeout fails with a retryable error on every attempt, what the caller
\* receives is the max-retries error
C11_ExhaustedRetriesSurfaced ==
    (rl.pc = "done" /\ RaceOnlyFailedRetryably) => rl.outcome = "maxRetries"

\* the caller has received the timeout error while the fifth backoff sleep of
\* its call is still going on
C11_Witness ==
    /\ rl.pc = "done" /\ rl.outcome = "timeout"
    /\ RaceOnlyFailedRetryably
    /\ calls[rl.slot].alone
    /\ calls[rl.slot].pc = "sleep" /\ calls[rl.slot].fails = 5
    /\ now = rateLimitTimeout

-----------------------------------------------------------------------------
(* Claims about scanForArbitrage, checked under SpecScan *)

\* the opportunities of a list
Listed(opps) == {opps[m] : m \in 1..Len(opps)}

\* the step in which scanForArbitrage returns or throws
ScanEnds == scan.pc = "fetch" /\ scan'.pc \in {"done", "failed"}

\* the operations of the scan whose fetch succeeded
Succeeded == {r.op : r \in {q \in Listed(batch.results) : q.success}}

\* opportunity o buys at the quote b and sells at the quote s
Trades(o, b, s) ==
    /\ o.buyExchange = b.exchange /\ o.buyPrice = Ask(b)
    /\ o.sellExchange = s.exchange /\ o.sellPrice = Bid(s)

\* C12: scanForArbitrage never fails because the fetch of a venue failed: it
\* returns a list; every opportunity of the list trades between the quotes of
\* two operations that succeeded; the opportunity of every pair of such
\* operations that passes the analysis and the thresholds is in the list; and
\* the list is empty when every fetch failed
C12_PartialScan ==
    [][ScanEnds =>
        /\ scan'.pc = "done"
        /\ \A o \in Listed(scan'.result) :
                \E i \in Succeeded, j \in Succeeded :
                    Trades(o, scan.quotes[i], scan.quotes[j])
        /\ \A i \in Succeeded, j \in Succeeded :
            LET o == analyzeOpportunity(BTCUSDT, scan.quotes[i], scan.quotes[j],
                                        scan.config, now)
            IN  (/\ i # j
                 /\ IsCandidate(scan.quotes[i], scan.quotes[j])
                 /\ o # Null
                 /\ meetsThreshold(o, scan.config)) => o \in Listed(scan'.result)
        /\ Succeeded = {} => scan'.result = <<>>]_vars

\* a scan of X, Y, X has returned an opportunity although the first fetch of X
\* ended in an error
C12_Witness ==
    /\ scan.pc = "done"
    /\ scan.exchanges = <<"X", "Y", "X">>
    /\ scan.live[1] >= 1 /\ scan.quotes[1] = NoQuote
    /\ scan.quotes[2] # NoQuote /\ scan.quotes[3] # NoQuote
    /\ scan.result # <<>>

\* the entries of venue v in the ticker cache that have not outlived the ttl
FreshTicker(v) ==
    {e \in Listed(caches["ticker"]) : e.key = TickerKey(v) /\ now - e.start <= TICKER_TTL_MS}

\* C13: an operation of the scan consults the ticker cache first.  If the
\* cache holds a fresh entry of the venue, the operation returns that entry
\* marked as served from the cache and makes no fetch; if not, it fetches the
\* ticker live, and when the fetch succeeds the cache holds that ticker under
\* the key of the venue and the quote is not marked as cached
C13_CacheFirst ==
    [][scan.pc = "fetch" /\ scan'.pc = "fetch" =>
        \A c \in BatchSlots :
            LET i == c - MaxDirect
                v == calls[c].venue
                q == scan'.quotes[i]
            IN  /\ scan'.live[i] > scan.live[i] =>
                    /\ scan.look[c] = "none" /\ scan'.look[c] = "miss"
                    /\ FreshTicker(v) = {}
                    /\ scan'.quotes = scan.quotes
                /\ (scan.look[c] = "none" /\ q # scan.quotes[i]) =>
                    /\ \E e \in FreshTicker(v) : q = [exchange |-> v, record |-> e.val,
                                                      fromCache |-> TRUE]
                    /\ scan'.live = scan.live
                /\ (scan.look[c] = "miss" /\ q # scan.quotes[i]) =>
                    /\ q.exchange = v /\ ~q.fromCache
                    /\ \E n \in 1..Len(caches'["ticker"]) :
                        /\ caches'["ticker"][n].key = TickerKey(v)
                        /\ caches'["ticker"][n].val = q.record
                        /\ caches'["ticker"][n].start = now]_vars

\* a scan of X, X has ended: the first operation fetched the ticker live, the
\* second was served that ticker from the cache without a fetch
C13_Witness ==
    /\ scan.pc = "done"
    /\ scan.exchanges = <<"X", "X">>
    /\ scan.live[1] = 1 /\ ~scan.quotes[1].fromCache /\ scan.quotes[1] # NoQuote
    /\ scan.live[2] = 0 /\ scan.quotes[2].fromCache
    /\ scan.quotes[2].record = scan.quotes[1].record
    /\ \E n \in 1..Len(caches["ticker"]) :
        /\ caches["ticker"][n].key = TickerKey("X")
        /\ caches["ticker"][n].val = scan.quotes[1].record

\* the pair guard of the claim fails: the ask of the buy quote or the bid of
\* the sell quote is missing or not positive, or the bid is not above the ask
NoSpread(b, s) ==
    \/ ~HasField(b, "ask") \/ ~HasField(s, "bid")
    \/ Ask(b) <= 0 \/ Bid(s) <= 0
    \/ Bid(s) <= Ask(b)

\* C14: scanForArbitrage returns no opportunity for an ordered pair of quotes
\* whose sell bid is not above the buy ask, or whose buy ask or sell bid is
\* missing or not positive; every opportunity it returns has
\* 0 < buyPrice < sellPrice and a positive spread
C14_PositiveSpread ==
    [][ScanEnds =>
        /\ \A i \in Succeeded, j \in Succeeded :
            NoSpread(scan.quotes[i], scan.quotes[j]) =>
                \A o \in Listed(scan'.result) : ~Trades(o, scan.quotes[i], scan.quotes[j])
        /\ \A o \in Listed(scan'.result) :
            /\ 0 < o.buyPrice /\ o.buyPrice < o.sellPrice
            /\ o.spread > 0 /\ o.spread = o.sellPrice - o.buyPrice]_vars

\* X quotes 100/101 and Y quotes 103/104: the scan returns the opportunity that
\* buys on X and sells on Y, and none for the pair that buys on Y
C14_Witness ==
    /\ scan.pc = "done"
    /\ scan.exchanges = <<"X", "Y">>
    /\ scan.quotes[1].record = ScannerRecord("qA")
    /\ scan.quotes[2].record = ScannerRecord("qB")
    /\ Len(scan.result) = 1
    /\ scan.result[1].buyExchange = "X" /\ scan.result[1].sellExchange = "Y"

\* C15: every opportunity scanForArbitrage returns buys on one venue and sells
\* on another, whatever the list of venues (a venue may be named twice) and
\* whatever the venues quote
C15_DistinctVenues ==
    scan.pc = "done" =>
        \A o \in Listed(scan.result) : o.buyExchange # o.sellExchange

\* the fees of buying at quote b and selling at quote s that the
\* configuration includes
IncludedFees(b, s, config) ==
    LET fees == calculateArbitrageFees(b.exchange, s.exchange, Ask(b), Bid(s), TRUE)
    IN  (IF config.includeTradingFees THEN fees.buyFee + fees.sellFee ELSE 0)
            + (IF config.includeWithdrawalFees THEN fees.withdrawalFee ELSE 0)

\* C16: every opportunity scanForArbitrage returns has a positive netProfit,
\* and it returns no opportunity for a pair of quotes whose included fees are
\* at least the raw spread (sell bid less buy ask)
C16_NetProfitPositive ==
    [][ScanEnds =>
        /\ \A o \in Listed(scan'.result) : o.netProfit > 0
        /\ \A i \in Succeeded, j \in Succeeded :
            LET b == scan.quotes[i]
                s == scan.quotes[j]
            IN  IncludedFees(b, s, scan.config) >= Bid(s) - Ask(b) =>
                    \A o \in Listed(scan'.result) : ~Trades(o, b, s)]_vars

\* with the fees included, the scan of X at 100/101 and Y at 103/104 returns
\* nothing: the fees of the pair exceed its raw spread of 2
C16_Witness ==
    /\ scan.pc = "done"
    /\ scan.exchanges = <<"X", "Y">>
    /\ scan.quotes[1].record = ScannerRecord("qA")
    /\ scan.quotes[2].record = ScannerRecord("qB")
    /\ scan.config.includeWithdrawalFees /\ scan.config.includeTradingFees
    /\ Bid(scan.quotes[2]) - Ask(scan.quotes[1]) > 0
    /\ IncludedFees(scan.quotes[1], scan.quotes[2], scan.config)
            >= Bid(scan.quotes[2]) - Ask(scan.quotes[1])
    /\ scan.result = <<>>

\* amount = spread * volume, for a positive spread and a volume num / den
IsSpreadTimes(amount, spread, volume) ==
    /\ amount % spread = 0
    /\ (amount \div spread) * volume.den = volume.num

\* C17: the netProfit of every returned opportunity is
\* (sellPrice - buyPrice) * volume - fees.totalFees, the volume being that of
\* the opportunity (its available or its recommended volume) and the total of
\* the fees being subtracted once
C17_NetProfitFormula ==
    scan.pc = "done" =>
        \A o \in Listed(scan.result) :
            \/ IsSpreadTimes(o.netProfit + o.fees.totalFees, o.sellPrice - o.buyPrice,
                             [num |-> o.volume.available, den |-> 1])
            \/ IsSpreadTimes(o.netProfit + o.fees.totalFees, o.sellPrice - o.buyPrice,
                             o.volume.optimal)

\* the scenario: X quotes 100/101 and Y quotes 103/104, both with a volume
\* of 5000, and the scan of X, Y excludes the trading and the withdrawal fees
ScenarioAB ==
    /\ scan.pc = "done"
    /\ scan.exchanges = <<"X", "Y">>
    /\ scan.quotes[1].record = ScannerRecord("qA")
    /\ scan.quotes[2].record = ScannerRecord("qB")
    /\ ~scan.config.includeTradingFees /\ ~scan.config.includeWithdrawalFees

\* the scan returned one opportunity, which buys on X, sells on Y and has a
\* spread of 2
OneOpportunityAB ==
    /\ Len(scan.result) = 1
    /\ scan.result[1].buyExchange = "X" /\ scan.result[1].sellExchange = "Y"
    /\ scan.result[1].spread = 2 * 1000

\* C18, as stated: in the scenario the scan returns exactly one opportunity,
\* from X to Y with spread 2, whose netProfit is 2 times its recommended
\* volume
C18_ScenarioRecommendedVolume ==
    ScenarioAB =>
        /\ OneOpportunityAB
        /\ scan.result[1].netProfit * scan.result[1].volume.optimal.den
                = 2 * 1000 * scan.result[1].volume.optimal.num

\* C18, amended: in the scenario the scan returns exactly one opportunity,
\* from X to Y with spread 2, whose netProfit is 2 times its available volume
\* of 5000; its recommended volume is 500 when both quotes were fetched live
C18_ScenarioAvailableVolume ==
    ScenarioAB =>
        /\ OneOpportunityAB
        /\ scan.result[1].volume.available = 5000
        /\ scan.result[1].netProfit = 2 * 1000 * 5000
        /\ scan.result[1].fromCache = <<FALSE, FALSE>> =>
             scan.result[1].volume.optimal.num = 500 * scan.result[1].volume.optimal.den

\* the scenario has been scanned with both tickers fetched live
C18_Witness ==
    /\ ScenarioAB
    /\ ~scan.quotes[1].fromCache /\ ~scan.quotes[2].fromCache
    /\ Len(scan.result) = 1

\* X and Y have both answered the scan of X, Y with the same ticker
SameQuote ==
    /\ scan.pc = "done"
    /\ scan.exchanges = <<"X", "Y">>
    /\ scan.quotes[1] # NoQuote /\ scan.quotes[2] # NoQuote
    /\ scan.quotes[1].record = scan.quotes[2].record

\* the book of a ticker is crossed: both prices are there and positive, and
\* the bid is above the ask
Crossed(name) ==
    /\ Ticker(name).missing \cap {"bid", "ask"} = {}
    /\ Ticker(name).ask > 0
    /\ Ticker(name).bid > Ticker(name).ask

\* C19, as stated: when X and Y both return the same quote, whatever its bid,
\* ask and volume, the scan of X, Y returns no opportunity
C19_SameQuoteNoOpportunity ==
    SameQuote => scan.result = <<>>

\* C19, amended: when X and Y both return the same quote and its book is not
\* crossed, the scan of X, Y returns no opportunity
C19_SameUncrossedQuoteNoOpportunity ==
    (SameQuote /\ ~Crossed(scan.quotes[1].record[2])) => scan.result = <<>>

\* X and Y have both quoted 100/101 to a scan that excludes the fees and has
\* no thresholds, and the scan has returned nothing
C19_Witness ==
    /\ SameQuote
    /\ scan.quotes[1].record = ScannerRecord("qA")
    /\ ~scan.quotes[1].fromCache /\ ~scan.quotes[2].fromCache
    /\ scan.config = Config(0, 10, 0, FALSE, FALSE)
    /\ scan.result = <<>>

\* riskScore (kept as twice its value) is in [1, 10], confidence in [0, 100]
InRange(riskScore, confidence) ==
    /\ 2 * 1 <= riskScore /\ riskScore <= 2 * 10
    /\ 0 <= confidence.num /\ confidence.num <= 100 * confidence.den

\* spread per cents and volumes, the extremes among them
SpreadPercents ==
    {[num |-> n, den |-> 100] : n \in {-10000, 0, 40, 75, 150, 201, 3000, 100000}}
VolumeGrid == {0, 1, 999, 1000, 9999, 10001, 100001, 1000000}

\* the two scores of every combination of spread per cent, volume and cache
\* flags are in range
ScoresOfGridInRange ==
    \A sp \in SpreadPercents, v \in VolumeGrid, bc \in BOOLEAN, sc \in BOOLEAN :
        LET riskScore == calculateRiskScore(Quote("X", ScannerRecord("qA"), bc),
                                            Quote("Y", ScannerRecord("qB"), sc), sp, v)
        IN  InRange(riskScore, calculateConfidence(sp, v, riskScore, bc, sc))

\* C20: the riskScore of every returned opportunity is in [1, 10] and its
\* confidence in [0, 100], and so are the two scores for every combination of
\* spread per cent, available volume and cache flags
C20_ScoresInRange ==
    /\ \A o \in Listed(scan.result) : InRange(o.riskScore, o.confidence)
    /\ ScoresOfGridInRange

\* the scan has returned an opportunity with a spread above 20 %, whose
\* confidence is 100
C20_Witness ==
    /\ scan.pc = "done"
    /\ \E o \in Listed(scan.result) :
        /\ o.spreadPercent.num > 20 * o.spreadPercent.den
        /\ o.confidence.num = 100 * o.confidence.den

\* opportunity o clears the three thresholds of the configuration:
\* netProfitPercent >= minProfitPercent, riskScore <= maxRiskScore and
\* available volume >= minVolume
Clears(o, config) ==
    /\ 10 * o.netProfitPercent.num >= config.minProfitTenths * o.netProfitPercent.den
    /\ o.riskScore <= 2 * config.maxRiskScore
    /\ o.volume.available >= config.minVolume

\* C21: every opportunity scanForArbitrage returns, and so every opportunity
\* a scan places in the store, clears the three thresholds of the caller of
\* that scan; the scan does not fail, also when no pair clears them
C21_ThresholdsHold ==
    /\ [](/\ scan.pc # "failed"
          /\ \A o \in Listed(scan.result) : Clears(o, scan.config))
    /\ [][\A o \in scan'.store \ scan.store :
            /\ o \in Listed(scan'.result)
            /\ Clears(o, scan'.config)
         ]_vars

\* X quotes 100/101 with volume 5000 and Y 101.4/101.5 with volume 50: the
\* pair X -> Y is profitable, but its volume of 50 is below minVolume = 100,
\* and the scan has returned the empty list
C21_Witness ==
    /\ scan.pc = "done"
    /\ scan.exchanges = <<"X", "Y">>
    /\ scan.quotes[1].record = ScannerRecord("qA")
    /\ scan.quotes[2].record = ScannerRecord("qTight")
    /\ scan.config = Config(1, 7, 100, FALSE, FALSE)
    /\ analyzeOpportunity(BTCUSDT, scan.quotes[1], scan.quotes[2], scan.config, now) # Null
    /\ scan.result = <<>> /\ scan.store = {}

\* the list returned by the scan is in non-increasing order of netProfit
ReturnedSorted ==
    \A m \in 1..Len(scan.result), n \in 1..Len(scan.result) :
        m < n => scan.result[m].netProfit >= scan.result[n].netProfit

\* what a caller sees of an opportunity: every field of it (fromCache is not
\* a field of the opportunity)
Seen(o) == [o EXCEPT !.fromCache = <<>>]

\* C22: the list scanForArbitrage returns is in non-increasing order of
\* netProfit, and every opportunity of the list is in the store under its own
\* id after the scan
C22_SortedAndStored ==
    scan.pc = "done" =>
        /\ ReturnedSorted
        /\ \A o \in Listed(scan.result) :
            \E st \in scan.store : st.id = o.id /\ Seen(st) = Seen(o)

-----------------------------------------------------------------------------
(* Claims about continuous scanning, checked under SpecLoop *)

\* the store holds an opportunity of symbol sym that is older than maxAge
HoldsOld(sym) == \E e \in cont.store : e.symbol = sym /\ e.age > maxAge

\* a continuous scanning loop is in a pass
Scanning == \E l \in LoopIds : cont.loop[l].pc = "scan"

\* C23: while scanning goes on, an opportunity older than the retention
\* window of 5 minutes does not stay in the store for ever
C23_OldOpportunitiesEvicted ==
    \A sym \in 1..MaxSymbols :
        ([]<>Scanning) => (HoldsOld(sym) ~> ~HoldsOld(sym))

\* C24: at most one continuous scanning loop is active at any time, whatever
\* the interleaving of startContinuousScanning and stopScanning calls with
\* the passes and the sleeps of the loop
C24_OneLoop ==
    Cardinality({l \in LoopIds : Active(cont.loop[l])}) <= 1

\* C25: every loop that is active when stopScanning is called terminates,
\* whatever calls follow the stop
C25_StoppedLoopEnds ==
    \A l \in LoopIds : cont.loop[l].stopped ~> ~Active(cont.loop[l])

\* C26: an error thrown inside a pass does not end the loop: the loop sleeps
\* for the scan interval, and when the sleep is over it starts the next pass
\* with the first symbol, unless scanning has been stopped
C26_ErrorIsolated ==
    [][\A l \in LoopIds :
        LET lp == cont.loop[l]
            lq == cont'.loop[l]
        IN  /\ (lp.pc = "scan" /\ lq.erred /\ (lq.pc # "scan" \/ lq.k # lp.k)) =>
                    (lq.pc = "sleep" /\ lq.left = scanInterval)
            /\ (lp.pc = "sleep" /\ lp.erred /\ lq.pc # "sleep") =>
                    /\ lp.left = 0
                    /\ IF cont.scannerRunning
                       THEN lq.pc = "scan" /\ lq.k = 1
                       ELSE lq.pc = "returned"]_vars

\* a loop whose last pass ended in an error is in its next pass
C26_Witness ==
    \E l \in LoopIds :
        /\ cont.loop[l].pc = "scan" /\ cont.loop[l].k = 1
        /\ cont.loop[l].erred
        /\ ~cont.loop[l].stopped

-----------------------------------------------------------------------------
(* Claims about the fee functions, checked under SpecFees *)

\* fee amount = price * rate, the rate being in 1/RateUnit
IsRateOf(amount, price, rate) == amount * RateUnit = price * rate

\* C27: buyFee is the buy price times the taker rate of the buy venue and
\* sellFee the sell price times the taker rate of the sell venue; the
\* withdrawal fee is that of the buy venue when the venues differ and
\* withdrawal is opted in, and 0 otherwise; the fees the scanner reports have
\* totalFees = buyFee + sellFee + withdrawalFee, with buyFee = sellFee = 0
\* when the configuration excludes the trading fees
C27_FeeComputation ==
    fee.pc \in {"arbitrage", "scanner"} =>
        /\ fee.out.buyFee =
                IF fee.trading
                THEN (fee.buyPrice * getExchangeFees(fee.buyExchange).taker) \div RateUnit
                ELSE 0
        /\ fee.out.sellFee =
                IF fee.trading
                THEN (fee.sellPrice * getExchangeFees(fee.sellExchange).taker) \div RateUnit
                ELSE 0
        /\ fee.trading =>
            /\ IsRateOf(fee.out.buyFee, fee.buyPrice, getExchangeFees(fee.buyExchange).taker)
            /\ IsRateOf(fee.out.sellFee, fee.sellPrice, getExchangeFees(fee.sellExchange).taker)
        /\ fee.out.withdrawalFee =
                IF fee.withdrawal /\ fee.buyExchange # fee.sellExchange
                THEN getExchangeFees(fee.buyExchange).withdrawal
                ELSE 0
        /\ fee.out.totalFees = fee.out.buyFee + fee.out.sellFee + fee.out.withdrawalFee

\* the scanner has computed the fees of buying on phemex, whose maker rate is
\* a rebate, and selling on coinbase, the withdrawal fee of phemex included
C27_Witness ==
    /\ fee.pc = "scanner"
    /\ fee.buyExchange = "phemex" /\ fee.sellExchange = "coinbase"
    /\ fee.trading /\ fee.withdrawal
    /\ fee.out.buyFee > 0
    /\ fee.out.withdrawalFee = EXCHANGE_FEES["phemex"].withdrawal

\* C28: a venue id that is not in the fee table resolves to the default
\* profile, whose taker rate and withdrawal fee are not lower than those of
\* any venue of the table: the total fees computed between two venues that
\* are not in the table are not lower than those computed between two venues
\* of the table at the same prices
C28_DefaultIsConservative ==
    /\ (fee.pc = "lookup" /\ toLowerCase(fee.buyExchange) \notin DOMAIN EXCHANGE_FEES) =>
            /\ fee.profile = DEFAULT_FEES
            /\ \A v \in DOMAIN EXCHANGE_FEES :
                /\ fee.profile.taker >= EXCHANGE_FEES[v].taker
                /\ fee.profile.withdrawal >= EXCHANGE_FEES[v].withdrawal
    /\ (fee.pc = "arbitrage" /\ fee.withdrawal
            /\ fee.buyExchange \in DOMAIN EXCHANGE_FEES
            /\ fee.sellExchange \in DOMAIN EXCHANGE_FEES
            /\ fee.buyExchange # fee.sellExchange) =>
            calculateArbitrageFees("unlisted", "unlisted2", fee.buyPrice, fee.sellPrice,
                                   TRUE).totalFees >= fee.out.totalFees

-----------------------------------------------------------------------------
(* Claims about the metrics and the clearing of MarketDataCache, checked   *)
(* under SpecCache                                                         *)

\* rate, in hundredths of a percent, is hits / (hits + misses) as a
\* percentage to the nearest hundredth, and 0 when there were no gets
IsHitRate(rate, hits, misses) ==
    IF hits + misses = 0 THEN rate = 0
    ELSE LET d == rate * (hits + misses) - hits * 10000
         IN  2 * d <= hits + misses /\ -2 * d <= hits + misses

Total(count) ==
    count["ticker"] + count["orderBook"] + count["ohlcv"] + count["market"] + count["trades"]

\* C29: since the last resetMetrics, for every class hits + misses is the
\* number of gets made on the class, hits is the number of those gets that
\* returned a value and misses the number of those that returned none; the
\* reported hit rate of a class is hits / (hits + misses) as a percentage
\* (0 when there were no gets), and the overall totals are the sums over the
\* classes
C29_HitsAndMisses ==
    /\ \A cls \in Classes :
        /\ metrics[cls].hits + metrics[cls].misses = used.got[cls]
        /\ metrics[cls].hits = used.returned[cls]
        /\ metrics[cls].misses = used.got[cls] - used.returned[cls]
        /\ getStats[cls].hits = metrics[cls].hits
        /\ getStats[cls].misses = metrics[cls].misses
        /\ IsHitRate(getStats[cls].hitRate, used.returned[cls],
                     used.got[cls] - used.returned[cls])
    /\ getStats["overall"].totalHits = Total([cls \in Classes |-> getStats[cls].hits])
    /\ getStats["overall"].totalMisses = Total([cls \in Classes |-> getStats[cls].misses])
    /\ getStats["overall"].totalHits = Total(used.returned)
    /\ getStats["overall"].totalMisses = Total(used.got) - Total(used.returned)
    /\ IsHitRate(getStats["overall"].overallHitRate, Total(used.returned),
                 Total(used.got) - Total(used.returned))

\* C30: clearAllCaches leaves every class empty and the counters as they
\* were; resetMetrics sets every counter to 0 and leaves the entries of every
\* class as they were; clearTickerCache and clearOrderBookCache empty their
\* own class and leave the entries of every other class as they were; a get
\* of a request whose entry was cleared and not set again is absent
C30_ClearAndReset ==
    /\ [][/\ clearAllCaches =>
                /\ \A cls \in Classes : caches'[cls] = <<>> /\ getStats'[cls].size = 0
                /\ metrics' = metrics
          /\ resetMetrics =>
                /\ \A cls \in Classes :
                    /\ metrics'[cls] = [hits |-> 0, misses |-> 0, evictions |-> 0]
                    /\ getStats'[cls].hits = 0 /\ getStats'[cls].misses = 0
                /\ caches' = caches
          /\ clearTickerCache =>
                /\ caches'["ticker"] = <<>>
                /\ \A cls \in Classes \ {"ticker"} : caches'[cls] = caches[cls]
                /\ metrics' = metrics
          /\ clearOrderBookCache =>
                /\ caches'["orderBook"] = <<>>
                /\ \A cls \in Classes \ {"orderBook"} : caches'[cls] = caches[cls]
                /\ metrics' = metrics]_vars
    /\ [](ret.op = "get" /\ LastSet # NoHist /\ LastSet.gone => ret.val = Absent)

\* all entries were cleared while the counters were not zero, and a get of a
\* request that had been set returned nothing afterwards
C30_Witness ==
    /\ ret.op = "get"
    /\ LastSet # NoHist /\ LastSet.gone
    /\ \A cls \in Classes : caches[cls] = <<>>
    /\ metrics[ret.req.cls].hits > 0


-----------------------------------------------------------------------------
(* Claims about ExchangeManager, checked under SpecManager *)

\* C31: for any interleaving of getExchange calls, at most one instance is
\* ever created for a key, and every call for the key returns that instance
C31_OneInstancePerKey ==
    /\ \A a \in manager.created, b \in manager.created : a[1] = b[1] => a[2] = b[2]
    /\ \A c \in ManagerCalls, d \in ManagerCalls :
        /\ manager.call[c].pc = "returned"
        /\ manager.call[d].pc = "returned"
        /\ manager.call[c].key = manager.call[d].key
        => manager.call[c].made = manager.call[d].made

-----------------------------------------------------------------------------
(* Further claims about executeWithBackoff, checked under Spec *)

\* the step in which an attempt of call c fails with a non-retryable error
AttemptFailsFatally(c) ==
    /\ calls[c].pc = "run"
    /\ calls[c].pure
    /\ ~calls'[c].pure

\* C32: whenever an attempt fails with a non-retryable error, the call makes
\* no further attempt and raises that same error, never the max-retries
\* error, whatever the venue's retry count was when the attempt started
C32_FatalErrorRaisedAsIs ==
    [][\A c \in CallIds :
        AttemptFailsFatally(c) =>
            /\ calls'[c].pc = "done"
            /\ calls'[c].attempts = calls[c].attempts
            /\ isNonRetryableError(calls'[c].err)
            /\ calls'[c].outcome = "error"
      ]_vars

\* C33: a call whose operation fails with a retryable error on every attempt
\* raises after a bounded number of attempts, other calls for its venue
\* succeeding or failing in between: it does not go on to as many attempts as
\* operations are let fail here (MaxAttempts, which is more than the
\* maxRetries + 1 attempts of a call that is alone)
C33_BoundedAttempts ==
    \A c \in CallIds :
        (calls[c].pure /\ calls[c].fails >= calls[c].attempts - 1) =>
            calls[c].attempts < MaxAttempts

\* a call for venue v is in flight
CallInFlight(v) == \E c \in CallIds : Pending(calls[c]) /\ calls[c].venue = v

\* C34: in every reachable state (each is a suspension point of the calls),
\* for every venue consecutiveErrors = retryCount and 0 <= retryCount <=
\* maxRetries; and while no executeWithBackoff call for a venue is in flight,
\* the venue's retryCount is 0
C34_RetryStateInvariant ==
    \A v \in Venues :
        /\ retryStates[v].consecutiveErrors = retryStates[v].retryCount
        /\ retryStates[v].retryCount \in 0..maxRetries
        /\ ~CallInFlight(v) => retryStates[v].retryCount = 0

\* a venue is at its last retry while no call is in flight for another
\* venue, whose last call has failed and raised
C34_Witness ==
    \E c \in CallIds :
        /\ calls[c].pc = "done" /\ calls[c].fails > 0
        /\ ~CallInFlight(calls[c].venue)
        /\ VenueState(c).exists /\ VenueState(c).retryCount = 0
        /\ \E w \in Venues \ {calls[c].venue} :
            /\ CallInFlight(w)
            /\ retryStates[w].retryCount = maxRetries
            /\ retryStates[w].consecutiveErrors = maxRetries

-----------------------------------------------------------------------------
(* Further claims about executeBatch, checked under SpecBatch *)

\* C35: the k-th entry of the list executeBatch returns is the outcome of the
\* k-th operation of the input list, whatever the order of the venues in it
C35_ResultsInInputOrder ==
    batch.pc = "done" =>
        /\ Len(Results) = Len(batch.ops)
        /\ \A k \in 1..Len(Results) : Results[k].op = k

-----------------------------------------------------------------------------
(* Claims about repeated scanning, checked under SpecRescan *)

\* C36: in repeated scanning at the default interval, no quote that a scan
\* uses was fetched from its venue more than the ticker TTL (10 s) earlier
C36_NoStaleQuoteUsed ==
    scan.pc = "done" =>
        \A i \in 1..Len(scan.exchanges) :
            now - scan.fetchedAt[scan.quotes[i].exchange] <= TICKER_TTL_MS

-----------------------------------------------------------------------------
(* Further claims about the scanner, checked under SpecScan *)

\* the adjustment for the spread per cent sp (a fraction with a positive
\* denominator): +2 below 0.5, +1 from 0.5 to below 1, -1 above 2, else 0
SpreadAdjustment(sp) ==
    IF 2 * sp.num < sp.den THEN 2
    ELSE IF sp.num < sp.den THEN 1
    ELSE IF sp.num > 2 * sp.den THEN -1
    ELSE 0

\* the adjustment for the volume v: +2 below 1,000, +1 from 1,000 to below
\* 10,000, -1 above 100,000, else 0
VolumeAdjustment(v) ==
    IF v < 1000 THEN 2
    ELSE IF v < 10000 THEN 1
    ELSE IF v > 100000 THEN -1
    ELSE 0

\* twice clamp[1,10](5 + s + v + c), c being 0.5 for each side served from
\* the cache
ClaimedRiskScore(sp, v, buyFromCache, sellFromCache) ==
    LET twice == 2 * 5 + 2 * SpreadAdjustment(sp) + 2 * VolumeAdjustment(v)
                 + (IF buyFromCache THEN 1 ELSE 0) + (IF sellFromCache THEN 1 ELSE 0)
    IN  IF twice < 2 * 1 THEN 2 * 1 ELSE IF twice > 2 * 10 THEN 2 * 10 ELSE twice

\* optimal is available * ((10 - riskScore) / 10) * 0.25 (riskScore being
\* kept as twice its value), and is not above available
IsRecommendedVolume(optimal, available, riskScore) ==
    /\ optimal.den > 0
    /\ optimal.num * 2 * 10 * 4 = available * (2 * 10 - riskScore) * optimal.den
    /\ optimal.num <= available * optimal.den

\* spread per cents and volumes, the limits of the claim among them
SpreadLimits == SpreadPercents \cup {[num |-> n, den |-> 100] : n \in {50, 100, 200}}
VolumeLimits == VolumeGrid \cup {10000, 100000}

\* the risk score and the recommended volume of every combination of spread
\* per cent, available volume and cache flags are the claimed ones
ScoresOfGridAsClaimed ==
    \A sp \in SpreadLimits, v \in VolumeLimits, bc \in BOOLEAN, sc \in BOOLEAN :
        LET riskScore == calculateRiskScore(Quote("X", ScannerRecord("qA"), bc),
                                            Quote("Y", ScannerRecord("qB"), sc), sp, v)
        IN  /\ riskScore = ClaimedRiskScore(sp, v, bc, sc)
            /\ IsRecommendedVolume(calculateOptimalVolume(v, riskScore), v, riskScore)

\* C37: the risk score of an opportunity is clamp[1,10](5 + s + v + c), s and
\* v being the adjustments for its spread per cent and its available volume
\* and c 0.5 for each side served from the cache; its recommended volume is
\* availableVolume * ((10 - riskScore) / 10) * 0.25 and never exceeds the
\* available volume
C37_RiskScoreAndVolume ==
    /\ \A o \in Listed(scan.result) :
        /\ o.riskScore = ClaimedRiskScore(o.spreadPercent, o.volume.available,
                                          o.fromCache[1], o.fromCache[2])
        /\ IsRecommendedVolume(o.volume.optimal, o.volume.available, o.riskScore)
    /\ ScoresOfGridAsClaimed

\* the scan has returned an opportunity one side of which was served from the
\* cache: its risk score ends in .5, and a volume is recommended
C37_Witness ==
    /\ scan.pc = "done"
    /\ \E o \in Listed(scan.result) :
        /\ o.fromCache[1] /\ ~o.fromCache[2]
        /\ o.riskScore % 2 = 1
        /\ o.volume.optimal.num > 0
        /\ o.volume.optimal.num < o.volume.available * o.volume.optimal.den

\* C38: when a venue does not support ticker fetching, the failure of the
\* scanner's operation for it is not retried: the call settles with that
\* error after the one attempt, no backoff sleep is spent on it, and the
\* venue is left out of the scan
C38_UnsupportedNotRetried ==
    [][\A c \in BatchSlots :
        tickerFetchFails(c, TickersUnsupportedError) =>
            /\ calls'[c].pc = "done"
            /\ calls'[c].outcome = "error"
            /\ calls'[c].attempts = 1
            /\ calls'[c].delay = 0
            /\ scan'.quotes[c - MaxDirect] = NoQuote
      ]_vars

\* quote q as it would be had the scanner fetched and cached its ticker
AsScannerQuote(q) ==
    IF q.record[1] = "handler" THEN Quote(q.exchange, ScannerRecord(q.record[2]), q.fromCache)
    ELSE q

\* C39: a ticker that the market_ticker handler cached and a scan reads
\* within the TTL yields a quote whose base volume is available, and the scan
\* returns what it would return had the scanner fetched and cached that
\* ticker itself
C39_HandlerTickerAsScanners ==
    [][(ScanEnds /\ batch.pc = "done") =>
        LET asScanner == [i \in 1..MaxBatchOps |-> AsScannerQuote(scan.quotes[i])]
            priceData == priceDataOf(batch.results, asScanner)
        IN  /\ \A i \in 1..Len(scan.exchanges) :
                (scan.quotes[i] # NoQuote /\ Volume(scan.quotes[i]) # 0) =>
                    Truthy(scan.quotes[i], "volume", Volume(scan.quotes[i]))
            /\ scan'.result = SortByNetProfit(
                    PairLoop(priceData, scan.config, now, Len(priceData) * Len(priceData)))
      ]_vars

=============================================================================
